---- MODULE Spec2Model ----
(***************************************************************************)
(* Model of the authentication detection engine (detectAuthentication and  *)
(* the functions it calls): the AI path, the pattern path, snippet         *)
(* extraction against the live page under the 35 s ceiling, and            *)
(* deduplication.                                                          *)
(*                                                                         *)
(* Strings.  A string is a record [pre, rest, len]: pre is its first       *)
(* (at most 100) characters, rest names the characters after the 100th,    *)
(* and len is its length.  Texts the code writes itself (placeholder       *)
(* comments) are held literally; for markup read from the live page, pre   *)
(* and rest are names standing for the characters.                         *)
(***************************************************************************)
EXTENDS Integers, Sequences, FiniteSets, TLC

VARIABLES
    pc,         \* detectAuthentication: "off" | "start" | "ai_wait" | "extract" | "done"
    html,       \* the markup given (a sequence of pieces)
    apiKey,     \* whether GEMINI_API_KEY is set
    pageClosed, \* whether the live page is closed
    aiCall,     \* how the inference call ended: "none" | "timeout" | "transport" | "text"
    aiText,     \* the response text, when aiCall = "text"
    aiFound,    \* aiData.found, once the response parsed
    path,       \* the detector whose candidates are being resolved: "none" | "ai" | "pattern"
    components, \* the candidates given to extractSnippetsFromPage
    ex,         \* per candidate, where its extractOne stands
    now,        \* milliseconds since extractSnippetsFromPage was called
    timedOut,   \* whether the 35 s timer won the race
    results,    \* what extractSnippetsFromPage returned
    result,     \* the DetectionResult returned
    invoked,    \* how often the inference service was called and runPatternDetection ran
    dd_in,      \* removeDuplicates: the component sequence given
    dd_out,     \* removeDuplicates(dd_in), once applied
    dd_twice,   \* removeDuplicates(dd_out), once applied
    dd_pc,      \* "off" | "input" | "once" | "twice"
    pat_doc,    \* the pattern detector or the excerpt builder on its own: the markup given
    pat_out,    \* the candidates, or the excerpt, it assembled, once applied
    pat_pc,     \* "off" | "input" | "done" | "excerpt"
    browser,        \* BrowserPool.browser: 0 for null, else the instance
    connected,      \* the engine instances that are running and connected
    isInitializing, \* BrowserPool.isInitializing
    initPromise,    \* BrowserPool.initPromise: 0 for null, else the launch it stands for
    launches,       \* per launch started: "pending" | "ok" | "failed"
    rq,             \* per request, where its createContext call stands
    idleTime,          \* Date.now() - BrowserPool.lastUsed, in ms
    timers,            \* the setInterval timers that are active
    idleCheckInterval, \* BrowserPool.idleCheckInterval: 0 for null, else the timer
    closing,           \* the instances a closeBrowser call is awaiting close() of
    sc_pc,        \* scrapeWebsite: "off" | "racing" | "returned"
    ps_pc,        \* performScrape: where it stands, or how it ended
    sc_context,   \* the context performScrape opened: "none" | "open" | "closed"
    sc_page,      \* the page performScrape opened: "none" | "open" | "closed"
    sc_attempted, \* the resources a close was attempted on
    sc_failed,    \* the resources whose close threw
    ps_error,     \* what performScrape caught: "" when nothing
    sc_result,    \* the ScrapeResult scrapeWebsite resolved with
    sc_served,    \* the number of scrapeWebsite calls made so far
    sc_unclosed,  \* contexts of earlier failed calls that no close was attempted on
    dom,          \* the document cheerio parsed: its nodes in document order
    wp_pc,        \* whole-page route: "off" | "scan" | "buttons" | "lca" | "trad" | "oauth" | "returned" | "notfound"
    wp_gone,      \* the nodes removed from the parsed document since it was loaded
    wp_html,      \* finalHtml: the fragments serialized, in order
    wp_buttons,   \* oauthButtons after the reduce: brand and node serialized
    sb_pc,        \* single-best-element route: "off" | "step2" .. "step5" | "returned" | "notfound"
    sb_container, \* the container step 2 resolved: 0 when none
    sb_rejected,  \* whether step 2 turned its container down
    sb_html       \* authComponentHtml: the node serialized, 0 for null

ddVars == <<dd_in, dd_out, dd_twice, dd_pc>>
patVars == <<pat_doc, pat_out, pat_pc>>
monitorVars == <<idleTime, timers, idleCheckInterval, closing>>
scrapeVars == <<sc_pc, ps_pc, sc_context, sc_page, sc_attempted, sc_failed,
                ps_error, sc_result, sc_served, sc_unclosed>>
routeVars == <<dom, wp_pc, wp_gone, wp_html, wp_buttons,
               sb_pc, sb_container, sb_rejected, sb_html>>
poolVars == <<browser, connected, isInitializing, initPromise, launches, rq,
              idleTime, timers, idleCheckInterval, closing>>
inputVars == <<html, apiKey, pageClosed>>
aiVars == <<aiCall, aiText, aiFound>>
exVars == <<path, components, ex, now, timedOut>>
detectVars == <<pc, html, apiKey, pageClosed, aiCall, aiText, aiFound, path,
                components, ex, now, timedOut, results, result, invoked>>
vars == <<pc, html, apiKey, pageClosed, aiCall, aiText, aiFound, path,
          components, ex, now, timedOut, results, result, invoked,
          dd_in, dd_out, dd_twice, dd_pc, pat_doc, pat_out, pat_pc,
          browser, connected, isInitializing, initPromise, launches, rq,
          idleTime, timers, idleCheckInterval, closing,
          sc_pc, ps_pc, sc_context, sc_page, sc_attempted, sc_failed,
          ps_error, sc_result, sc_served, sc_unclosed,
          dom, wp_pc, wp_gone, wp_html, wp_buttons,
          sb_pc, sb_container, sb_rejected, sb_html>>

\* no ScrapeResult: scrapeWebsite has not resolved
NoScrapeResult == [success |-> FALSE, error |-> "", page |-> "none", context |-> "none",
                   screenshot |-> FALSE]

\* the state of a part of the program that is not running
DedupIdle == dd_in = <<>> /\ dd_out = <<>> /\ dd_twice = <<>> /\ dd_pc = "off"
PatternIdle == pat_doc = <<>> /\ pat_out = <<>> /\ pat_pc = "off"
PoolIdle ==
    /\ browser = 0 /\ connected = {} /\ isInitializing = FALSE
    /\ initPromise = 0 /\ launches = <<>> /\ rq = <<>>
    /\ idleTime = 0 /\ timers = {} /\ idleCheckInterval = 0 /\ closing = {}
RoutesIdle ==
    /\ dom = <<>> /\ wp_pc = "off" /\ wp_gone = {} /\ wp_html = <<>> /\ wp_buttons = {}
    /\ sb_pc = "off" /\ sb_container = 0 /\ sb_rejected = FALSE /\ sb_html = 0
ScrapeIdle ==
    /\ sc_pc = "off" /\ ps_pc = "off" /\ sc_context = "none" /\ sc_page = "none"
    /\ sc_attempted = {} /\ sc_failed = {} /\ ps_error = "" /\ sc_result = NoScrapeResult
    /\ sc_served = 0 /\ sc_unclosed = 0

\* ---------------------------------------------------------------- configuration

TIMEOUTS_aiApi == 60000
TIMEOUTS_extraction == 35000
TIMEOUTS_selector == 8000
TIMEOUTS_fallbackTotal == 12000
TIMEOUTS_fallbackPerAttempt == 3000

HTML_LIMITS_maxSnippet == 1500

\* the length of the key prefix taken by removeDuplicates
KeyPrefixLen == 100

\* the longest component sequence given to removeDuplicates on its own
MaxDedupLen == 3

\* the most components an inference response lists
MaxAIComponents == 2

\* ---------------------------------------------------------------- strings

Min(a, b) == IF a <= b THEN a ELSE b

\* a text written out in the code
Lit(t) ==
    [pre  |-> IF Len(t) <= KeyPrefixLen THEN t ELSE SubSeq(t, 1, KeyPrefixLen),
     rest |-> IF Len(t) <= KeyPrefixLen THEN "" ELSE SubSeq(t, KeyPrefixLen + 1, Len(t)),
     len  |-> Len(t)]

\* markup of the live page: n characters, the first 100 named p, the others r
Markup(p, r, n) == [pre |-> p, rest |-> r, len |-> n]

\* s.slice(0, 100)
SlicePrefix(s) ==
    [pre |-> s.pre, rest |-> "", len |-> Min(s.len, KeyPrefixLen)]

\* s.slice(0, HTML_LIMITS.maxSnippet) + '...' when s is longer, else s
truncate(markup) ==
    IF markup.len > HTML_LIMITS_maxSnippet
    THEN [pre |-> markup.pre, rest |-> markup.rest \o "...",
          len |-> HTML_LIMITS_maxSnippet + 3]
    ELSE markup

\* ---------------------------------------------------------------- components

\* snippet?: string, when the field is not set
Undefined == [pre |-> "", rest |-> "", len |-> -1]

ComponentTypes == {"traditional", "oauth", "passwordless"}

\* JavaScript truthiness of an optional string
Truthy(s) == s # Undefined /\ s.len > 0

\* ---------------------------------------------------------------- deduplication

\* the key removeDuplicates builds for a component
DedupKeyWholeSnippet(c) ==
    c.type \o ":" \o
        (IF Truthy(c.snippet)
         THEN c.snippet.pre \o c.snippet.rest
         ELSE "no-snippet")

DedupKeyNoType(c) ==
    IF Truthy(c.snippet) /\ Truthy(SlicePrefix(c.snippet))
    THEN SlicePrefix(c.snippet).pre
    ELSE "no-snippet"

DedupKey(c) ==
    c.type \o ":" \o
        (IF c.snippet # Undefined /\ Truthy(SlicePrefix(c.snippet))
         THEN SlicePrefix(c.snippet).pre
         ELSE "no-snippet")

\* a filter that forgets a key once it has dropped a component for it
RECURSIVE FilterForgetful(_, _, _)
FilterForgetful(comps, i, seen) ==
    IF i > Len(comps) THEN <<>>
    ELSE LET key == DedupKey(comps[i]) IN
         IF key \in seen
         THEN FilterForgetful(comps, i + 1, seen \ {key})
         ELSE <<comps[i]>> \o FilterForgetful(comps, i + 1, seen \cup {key})

\* components.filter(c => ...) from index i on, with the keys seen so far
RECURSIVE FilterUnseen(_, _, _)
FilterUnseen(comps, i, seen) ==
    IF i > Len(comps) THEN <<>>
    ELSE LET key == DedupKey(comps[i]) IN
         IF key \in seen
         THEN FilterUnseen(comps, i + 1, seen)
         ELSE <<comps[i]>> \o FilterUnseen(comps, i + 1, seen \cup {key})

removeDuplicates(comps) == FilterUnseen(comps, 1, {})

\* ---------------------------------------------------------------- the document

\* The markup (html) handed to detectAuthentication is a sequence of pieces of text.
\* PieceMarks gives, for each piece, what the detector's regular expressions
\* find inside it; a match across pieces is built from the marks in order.
Pieces ==
    { "<p>Welcome</p>", "<form>", "</form>", "<input type=\"password\">",
      "<input type='password'>", "<input type=password>", "Sign in", "Log in",
      "Continue with", "Google", "GitHub", "\n", "passkey", "magic", "link",
      "otp", "one", "time" }

PieceMarks(p) ==
    CASE p = "<form>"                    -> {"formOpen"}
      [] p = "</form>"                   -> {"formClose"}
      [] p = "<input type=\"password\">" -> {"pwdQuoted"}
      [] p = "<input type='password'>"   -> {"pwdQuoted"}
      [] p = "Sign in"                   -> {"signin", "verb"}
      [] p = "Log in"                    -> {"signin", "verb"}
      [] p = "Continue with"             -> {"verb"}
      [] p = "Google"                    -> {"google"}
      [] p = "GitHub"                    -> {"github"}
      [] p = "\n"                        -> {"newline"}
      [] p = "passkey"                   -> {"passkey"}
      [] p = "magic"                     -> {"magic"}
      [] p = "link"                      -> {"link"}
      [] p = "otp"                       -> {"otp"}
      [] p = "one"                       -> {"one"}
      [] p = "time"                      -> {"time"}
      [] OTHER                           -> {}

Has(doc, mark) == \E i \in 1..Len(doc) : mark \in PieceMarks(doc[i])

\* a.*b : a, then b later on the same line ('.' matches no line break)
SameLineInOrder(doc, a, b) ==
    \E i, j \in 1..Len(doc) :
        /\ i < j
        /\ a \in PieceMarks(doc[i])
        /\ b \in PieceMarks(doc[j])
        /\ \A k \in i..j : "newline" \notin PieceMarks(doc[k])

\* /<form[^>]*>[\s\S]*?<input[^>]*type=["']password["'][\s\S]*?<\/form>/i
MatchesPasswordForm(doc) ==
    \E i, j, k \in 1..Len(doc) :
        /\ i < j /\ j < k
        /\ "formOpen" \in PieceMarks(doc[i])
        /\ "pwdQuoted" \in PieceMarks(doc[j])
        /\ "formClose" \in PieceMarks(doc[k])

\* /(?:sign\s*in|log\s*in|login)/i
MatchesSignInWord(doc) == Has(doc, "signin")

oauthProviders ==
    <<"google", "facebook", "github", "twitter", "apple", "microsoft", "linkedin">>

\* an expression with the first alternative left out
MatchesProviderThenVerb(doc, p) == SameLineInOrder(doc, p, "verb")

\* new RegExp(`(?:sign|log|continue).*${p}|${p}.*(?:sign|log|continue)`, 'i')
MatchesProvider(doc, p) ==
    SameLineInOrder(doc, "verb", p) \/ SameLineInOrder(doc, p, "verb")

\* oauthProviders.filter(...)
RECURSIVE FilterProviders(_, _)
FilterProviders(doc, i) ==
    IF i > Len(oauthProviders) THEN <<>>
    ELSE (IF MatchesProvider(doc, oauthProviders[i]) THEN <<oauthProviders[i]>> ELSE <<>>)
         \o FilterProviders(doc, i + 1)

\* /magic.*link/i
MatchesMagicLink(doc) == SameLineInOrder(doc, "magic", "link")

\* /passkey|webauthn|magic.*link|otp|one.*time/i
MatchesPasswordless(doc) ==
    \/ Has(doc, "passkey") \/ Has(doc, "webauthn") \/ MatchesMagicLink(doc)
    \/ Has(doc, "otp") \/ SameLineInOrder(doc, "one", "time")

\* details: absent fields read as undefined; providersIsList is FALSE when
\* details.providers holds a value that is no list (inference output only)
Details(fields, providers, method, selector) ==
    [fields |-> fields, providers |-> providers, providersIsList |-> TRUE,
     method |-> method, playwrightSelector |-> selector]

NoDetails == Details(<<>>, <<>>, "", "")

\* a component as a detector creates it: details set, snippet not
Component(type, details) ==
    [type |-> type, hasDetails |-> TRUE, details |-> details, snippet |-> Undefined]

\* a detector that lists one oauth component per provider found
PatternComponentsPerProvider(doc) ==
    LET foundProviders == FilterProviders(doc, 1)
        method == IF Has(doc, "passkey") THEN "passkey"
                  ELSE IF MatchesMagicLink(doc) THEN "magic-link" ELSE "otp"
    IN  (IF MatchesPasswordForm(doc) \/ MatchesSignInWord(doc)
         THEN << Component("traditional",
                    Details(<<"email", "password">>, <<>>, "",
                            "form:has(input[type=\"password\"])")) >>
         ELSE <<>>)
        \o
        [i \in 1..Len(foundProviders) |->
            Component("oauth",
                Details(<<>>, <<foundProviders[i]>>, "",
                        "button:has-text(\"" \o foundProviders[i] \o "\")"))]
        \o
        (IF MatchesPasswordless(doc)
         THEN << Component("passwordless",
                    Details(<<>>, <<>>, method,
                            "button:has-text(\"" \o method \o "\")")) >>
         ELSE <<>>)

\* the candidates runPatternDetection assembles before resolving snippets
PatternComponents(doc) ==
    LET foundProviders == FilterProviders(doc, 1)
        method == IF Has(doc, "passkey") THEN "passkey"
                  ELSE IF MatchesMagicLink(doc) THEN "magic-link" ELSE "otp"
    IN  (IF MatchesPasswordForm(doc) \/ MatchesSignInWord(doc)
         THEN << Component("traditional",
                    Details(<<"email", "password">>, <<>>, "",
                            "form:has(input[type=\"password\"])")) >>
         ELSE <<>>)
        \o
        (IF Len(foundProviders) > 0
         THEN << Component("oauth",
                    Details(<<>>, foundProviders, "",
                            "button:has-text(\"" \o foundProviders[1] \o "\")")) >>
         ELSE <<>>)
        \o
        (IF MatchesPasswordless(doc)
         THEN << Component("passwordless",
                    Details(<<>>, <<>>, method,
                            "button:has-text(\"" \o method \o "\")")) >>
         ELSE <<>>)

\* ---------------------------------------------------------------- the inference response

\* The response text is a sequence of segments.  A "prose" segment holds no
\* brace; every other kind is one {...} region: "json" a valid object, "comma"
\* an object that is valid but for trailing commas, "slashes" a valid object
\* with // inside a string value, "broken" braces around text that is no JSON.
NoData == [found |-> "absent", isArray |-> FALSE, components |-> <<>>]

Segment(kind, data) == [kind |-> kind, data |-> data]

\* text.match(/\{[\s\S]*\}/): from the first '{' to the last '}'
BraceIndexes(text) == { i \in 1..Len(text) : text[i].kind # "prose" }

MatchJson(text) ==
    LET idx == BraceIndexes(text)
        lo == CHOOSE i \in idx : \A j \in idx : i <= j
        hi == CHOOSE i \in idx : \A j \in idx : j <= i
    IN  SubSeq(text, lo, hi)

\* JSON.parse succeeds on the cleaned region: the replaces drop trailing
\* commas, and cut every line at the first //
ParsesAfterCleaning(region) ==
    Len(region) = 1 /\ region[1].kind \in {"json", "comma"}

\* a parser that answers "nothing found" where parseAIOutput throws
parseAIOutputLenient(text) ==
    IF BraceIndexes(text) = {} \/ ~ParsesAfterCleaning(MatchJson(text))
    THEN [ok |-> TRUE, error |-> "", found |-> FALSE, components |-> <<>>]
    ELSE LET data == MatchJson(text)[1].data IN
         [ok |-> TRUE, error |-> "",
          found |-> (data.found = "true"),
          components |-> IF data.isArray THEN data.components ELSE <<>>]

\* parseAIOutput: the AIDetectionResponse, or ok = FALSE where it throws
parseAIOutput(text) ==
    IF BraceIndexes(text) = {} THEN [ok |-> FALSE, error |-> "No JSON in AI response"]
    ELSE LET region == MatchJson(text) IN
         IF ~ParsesAfterCleaning(region) THEN [ok |-> FALSE, error |-> "JSON parse failed"]
         ELSE LET data == region[1].data IN
              [ok |-> TRUE, error |-> "",
               found |-> (data.found = "true"),
               components |-> IF data.isArray THEN data.components ELSE <<>>]

\* ---------------------------------------------------------------- selectors

LowerCase == "abcdefghijklmnopqrstuvwxyz"
UpperCase == "ABCDEFGHIJKLMNOPQRSTUVWXYZ"

IndexIn(ch, alphabet) ==
    IF \E i \in 1..Len(alphabet) : SubSeq(alphabet, i, i) = ch
    THEN CHOOSE i \in 1..Len(alphabet) : SubSeq(alphabet, i, i) = ch
    ELSE 0

RECURSIVE MapChars(_, _, _)
MapChars(str, from, to) ==
    IF Len(str) = 0 THEN ""
    ELSE LET ch == SubSeq(str, 1, 1)
             i  == IndexIn(ch, from)
         IN  (IF i = 0 THEN ch ELSE SubSeq(to, i, i))
             \o MapChars(SubSeq(str, 2, Len(str)), from, to)

toUpperCase(str) == MapChars(str, LowerCase, UpperCase)
toLowerCase(str) == MapChars(str, UpperCase, LowerCase)

\* provider.charAt(0).toUpperCase() + provider.slice(1).toLowerCase()
Capitalize(provider) ==
    IF Len(provider) = 0 THEN ""
    ELSE toUpperCase(SubSeq(provider, 1, 1)) \o toLowerCase(SubSeq(provider, 2, Len(provider)))

\* the selectors oauthFallback tries for one provider, in order
OAuthSelectors(provider) ==
    LET pCap == Capitalize(provider) IN
    << "button:has-text(\"" \o pCap \o "\")",
       "a:has-text(\"" \o pCap \o "\")",
       "button:has-text(\"Sign in with " \o pCap \o "\")",
       "a:has-text(\"Sign in with " \o pCap \o "\")",
       "button:has-text(\"Continue with " \o pCap \o "\")",
       "[data-provider=\"" \o toLowerCase(provider) \o "\"]" >>

RECURSIVE OAuthSweep(_, _)
OAuthSweep(providers, i) ==
    IF i > Len(providers) THEN <<>>
    ELSE OAuthSelectors(providers[i]) \o OAuthSweep(providers, i + 1)

TraditionalSelectors ==
    << "form:has(input[type=\"password\"])", "a:has-text(\"Sign in\")",
       "a:has-text(\"Log in\")", "a:has-text(\"Login\")",
       "button:has-text(\"Sign in\")", "button:has-text(\"Log in\")",
       "a[href*=\"login\"]", "a[href*=\"signin\"]" >>

PasswordlessSelectors(method) ==
    << "button:has-text(\"" \o method \o "\")", "button:has-text(\"passkey\")",
       "button:has-text(\"magic link\")", "input[inputmode=\"numeric\"]",
       "webauthn-subtle" >>

\* the selectors the fallback chain of a component tries, in order
FallbackSelectors(comp) ==
    CASE comp.type = "oauth"        -> OAuthSweep(comp.details.providers, 1)
      [] comp.type = "traditional"  -> TraditionalSelectors
      [] comp.type = "passwordless" -> PasswordlessSelectors(comp.details.method)
      [] OTHER                      -> <<>>

\* ---------------------------------------------------------------- placeholder snippets

RECURSIVE Join(_, _)
Join(strs, sep) ==
    IF Len(strs) = 0 THEN ""
    ELSE IF Len(strs) = 1 THEN strs[1]
    ELSE strs[1] \o sep \o Join(Tail(strs), sep)

NoSelectorSnippet(type) == Lit("<!-- " \o type \o " detected, no selector -->")
ErrorSnippet(type) == Lit("<!-- " \o type \o " detected (error) -->")
TimeoutSnippet(type) == Lit("<!-- " \o type \o " detected (timeout) -->")
UnknownTypeSnippet(type) == Lit("<!-- " \o type \o " (fallback failed) -->")

\* what a fallback chain returns when no selector of it matched
FallbackFailedSnippet(comp, elapsed) ==
    CASE comp.type = "oauth" ->
            Lit("<!-- OAuth: " \o Join(comp.details.providers, ", ")
                \o " (extraction timeout: " \o ToString(elapsed) \o "ms) -->")
      [] comp.type = "traditional" ->
            Lit("<!-- Traditional login (extraction failed) -->")
      [] comp.type = "passwordless" ->
            Lit("<!-- Passwordless (" \o comp.details.method \o ") (extraction failed) -->")
      [] OTHER -> UnknownTypeSnippet(comp.type)

\* ---------------------------------------------------------------- the live page

\* null, as trySelector returns it
Null == Undefined

\* outerHTML of the elements the page may hold: two that agree on their first
\* 100 characters, one of them longer than HTML_LIMITS.maxSnippet, the other
\* with a script element among its descendants
PageMarkups ==
    { Markup("<button id=g", " x<script>track()</script>", 300),
      Markup("<button id=g", " y", 2000) }

\* how long after the call an element may become visible
HitDelays == {1000}

\* how long a trySelector call on selector sel may take: 0 when the page is
\* closed, or when the locator throws at once (a selector the engine cannot
\* parse: only a selector taken from an inference response can be one); a hit
\* delay when the element becomes visible; TIMEOUTS.selector when waitFor
\* gives up
TrySelectorDurations(fromResponse) ==
    IF pageClosed THEN {0}
    ELSE (IF fromResponse THEN {0} ELSE {}) \cup HitDelays \cup {TIMEOUTS_selector}

\* what a trySelector call that took dur may return: the markup of the first
\* match, also when waitFor gave up on an element that exists (count() > 0)
TrySelectorResults(dur) ==
    IF dur = 0 THEN {Null}
    ELSE IF dur < TIMEOUTS_selector THEN PageMarkups
    ELSE {Null} \cup PageMarkups

\* withTimeout inside tryWithTimeout: the call is cut at ms
CutDuration(dur, ms) == Min(dur, ms)

\* tryWithTimeout(trySelector(...), ms): null when the timer won
TryWithTimeoutResults(dur, ms) ==
    IF dur < ms THEN TrySelectorResults(dur)
    ELSE IF dur > ms THEN {Null}
    ELSE {Null} \cup TrySelectorResults(dur)

\* ---------------------------------------------------------------- extractOne

\* an extractOne that has returned
Resolved(snippet, k) ==
    [stage |-> "done", k |-> k, dur |-> 0, busyUntil |-> 0, t0 |-> 0,
     snippet |-> snippet]

\* an extractOne waiting for a trySelector call that takes dur
InFlight(stage, k, dur, at, t0) ==
    [stage |-> stage, k |-> k, dur |-> dur, busyUntil |-> at + dur,
     t0 |-> t0, snippet |-> Undefined]

\* the time one attempt of the chain of comp occupies extractOne
AttemptDuration(comp, dur) ==
    IF comp.type = "oauth" THEN CutDuration(dur, TIMEOUTS_fallbackPerAttempt) ELSE dur

\* the part of extractOne that runs before its first await
ExtractOneBeginRunsFallback(comp, dur) ==
    IF comp.details.playwrightSelector = ""
    THEN InFlight("fallback", 1, AttemptDuration(comp, dur), 0, 0)
    ELSE InFlight("own", 0, dur, 0, 0)

ExtractOneBegin(comp, dur) ==
    IF comp.details.playwrightSelector = ""
    THEN Resolved(NoSelectorSnippet(comp.type), 0)
    ELSE InFlight("own", 0, dur, 0, 0)

\* whether the chain of comp goes on to attempt k, at time t with the chain begun at t0
ChainContinues(comp, k, t, t0) ==
    /\ k <= Len(FallbackSelectors(comp))
    /\ comp.type = "oauth" => ~(t - t0 > TIMEOUTS_fallbackTotal)

\* the snippet a chain returns for a match
FallbackHit(comp, found) ==
    IF comp.type = "oauth" THEN found ELSE truncate(found)

\* runFallbackExtraction starting at time t, its first attempt taking dur
FallbackBegin(comp, t, dur) ==
    IF comp.type \notin ComponentTypes
        THEN Resolved(UnknownTypeSnippet(comp.type), 0)
    ELSE IF comp.type = "oauth" /\ ~comp.details.providersIsList
        THEN Resolved(ErrorSnippet(comp.type), 0)
    ELSE IF ~ChainContinues(comp, 1, t, t)
        THEN Resolved(FallbackFailedSnippet(comp, 0), 0)
    ELSE InFlight("fallback", 1, AttemptDuration(comp, dur), t, t)

\* a chain that passes over the strategy after one that missed
ExtractOneStepSkipping(comp, e, found, dur) ==
    IF e.stage = "own"
    THEN IF Truthy(found)
         THEN Resolved(truncate(found), 0)
         ELSE FallbackBegin(comp, e.busyUntil, dur)
    ELSE IF Truthy(found)
         THEN Resolved(FallbackHit(comp, found), e.k)
         ELSE IF ChainContinues(comp, e.k + 2, e.busyUntil, e.t0)
              THEN InFlight("fallback", e.k + 2, AttemptDuration(comp, dur), e.busyUntil, e.t0)
              ELSE Resolved(FallbackFailedSnippet(comp, e.busyUntil - e.t0), e.k)

\* extractOne at the return of the trySelector call it waited for: found is
\* what the call returned, dur what the next call (if any) takes
ExtractOneStep(comp, e, found, dur) ==
    IF e.stage = "own"
    THEN IF Truthy(found)
         THEN Resolved(truncate(found), 0)
         ELSE FallbackBegin(comp, e.busyUntil, dur)
    ELSE IF Truthy(found)
         THEN Resolved(FallbackHit(comp, found), e.k)
         ELSE IF ChainContinues(comp, e.k + 1, e.busyUntil, e.t0)
              THEN InFlight("fallback", e.k + 1, AttemptDuration(comp, dur), e.busyUntil, e.t0)
              ELSE Resolved(FallbackFailedSnippet(comp, e.busyUntil - e.t0), e.k)

\* what the call extractOne waits for may return
AttemptResults(comp, e) ==
    IF e.stage = "fallback" /\ comp.type = "oauth"
    THEN { r \in {Null} \cup PageMarkups :
            \E d \in {0} \cup HitDelays \cup {TIMEOUTS_selector} :
                /\ CutDuration(d, TIMEOUTS_fallbackPerAttempt) = e.dur
                /\ r \in TryWithTimeoutResults(d, TIMEOUTS_fallbackPerAttempt) }
    ELSE TrySelectorResults(e.dur)

\* ---------------------------------------------------------------- extractSnippetsFromPage

\* a resolver that rebuilds each component from its type and snippet alone
ResolvedResultsBare(comps, exs) ==
    [i \in 1..Len(comps) |->
        [Component(comps[i].type, NoDetails) EXCEPT !.snippet = exs[i].snippet]]

\* Promise.all(components.map(extractOne)), once every extractOne returned
ResolvedResults(comps, exs) ==
    [i \in 1..Len(comps) |-> [comps[i] EXCEPT !.snippet = exs[i].snippet]]

\* what the 35 s timer resolves the race with
TimeoutResultsNone(comps) == <<>>

TimeoutResults(comps) ==
    [i \in 1..Len(comps) |-> [comps[i] EXCEPT !.snippet = TimeoutSnippet(comps[i].type)]]

AllDone == \A i \in 1..Len(ex) : ex[i].stage = "done"

Pending == { i \in 1..Len(ex) : ex[i].stage # "done" }

\* the next instant at which a pending call returns, with no timer in the race
NextEventNoTimer ==
    LET times == { ex[i].busyUntil : i \in Pending }
    IN  CHOOSE t \in times : \A u \in times : t <= u

\* the next instant at which a pending call returns or the timer fires
NextEvent ==
    LET times == { ex[i].busyUntil : i \in Pending } \cup {TIMEOUTS_extraction}
    IN  CHOOSE t \in times : \A u \in times : t <= u

\* ---------------------------------------------------------------- detection results

NoResult ==
    [success |-> FALSE, found |-> FALSE, components |-> <<>>, detectionMethod |-> "none"]

\* the return of runAIDetection
AIResult(found, unique) ==
    [success |-> TRUE, found |-> found, components |-> unique, detectionMethod |-> "ai"]

\* a result that reports found whatever was returned
PatternResultFound(unique) ==
    [success |-> TRUE, found |-> TRUE, components |-> unique,
     detectionMethod |-> "pattern"]

\* the return of runPatternDetection
PatternResult(unique) ==
    [success |-> TRUE, found |-> Len(unique) > 0, components |-> unique,
     detectionMethod |-> "pattern"]

\* ---------------------------------------------------------------- inputs of the pipeline

\* documents given to detectAuthentication
PipelineDocs ==
    { << "<p>Welcome</p>" >>,
      << "<form>", "<input type=\"password\">", "</form>", "\n",
         "Continue with", "Google" >>,
      << "<p>Welcome</p>", "passkey" >>,
      << "Sign in" >> }

RECURSIVE SeqsUpTo(_, _)
SeqsUpTo(S, n) ==
    IF n = 0 THEN { <<>> }
    ELSE LET shorter == SeqsUpTo(S, n - 1) IN
         shorter \cup { Append(q, x) : q \in { r \in shorter : Len(r) = n - 1 }, x \in S }

\* well-formed components an inference response may list: with a selector
\* and a provider, with no selector, with a type outside the closed set, and
\* with providers that is no list
AIItems ==
    { Component("oauth", Details(<<>>, <<"google">>, "",
                                 "button:has-text('Sign in with Google')")),
      Component("oauth", Details(<<>>, <<"GitHub">>, "", "")),
      Component("sso", Details(<<>>, <<>>, "", "a.sso")),
      [Component("oauth", Details(<<>>, <<>>, "", "#social"))
          EXCEPT !.details.providersIsList = FALSE] }

\* a listed component that has no details
AIItemNoDetails == [Component("traditional", NoDetails) EXCEPT !.hasDetails = FALSE]

\* the values of "components" in a response
AIComponentLists ==
    SeqsUpTo(AIItems, MaxAIComponents)
    \cup { <<AIItemNoDetails>> }
    \cup { <<c, AIItemNoDetails>> : c \in { x \in AIItems : x.type = "sso" } }

\* the objects a response may hold: "found" true with every list, false or
\* absent with the short ones, and "components" that is no list
AIData ==
    { [found |-> "true", isArray |-> TRUE, components |-> cs] : cs \in AIComponentLists }
    \cup { [found |-> f, isArray |-> TRUE, components |-> cs] :
            f \in {"false", "absent"}, cs \in SeqsUpTo(AIItems, 1) }
    \cup { [found |-> "true", isArray |-> FALSE, components |-> <<>>] }

Prose == Segment("prose", NoData)
Broken == Segment("broken", NoData)

\* response texts of the inference service
AITexts ==
    { <<Segment("json", d)>> : d \in AIData }
    \cup { <<Prose, Segment("json", d), Prose>> : d \in { x \in AIData : Len(x.components) <= 1 } }
    \cup { <<Segment(k, d)>> : k \in {"comma", "slashes"},
                               d \in { x \in AIData : Len(x.components) = 1 } }
    \cup { <<Segment("json", d), Prose, Broken>> : d \in { x \in AIData : Len(x.components) = 1 } }
    \cup { <<>>, <<Prose>>, <<Broken>>, <<Prose, Broken, Prose>> }

\* how long the inference service may take to answer
AILatencies == {2000, 90000}

\* ---------------------------------------------------------------- detectAuthentication

\* extractSnippetsFromPage is called with comps: every extractOne runs to its first await
BeginExtraction(comps, detector) ==
    /\ path' = detector
    /\ components' = comps
    /\ \E durs \in [1..Len(comps) -> TrySelectorDurations(detector = "ai")] :
           ex' = [i \in 1..Len(comps) |-> ExtractOneBegin(comps[i], durs[i])]
    /\ now' = 0
    /\ timedOut' = FALSE
    /\ pc' = "extract"

\* runPatternDetection up to its await
PatternStart ==
    /\ invoked' = [invoked EXCEPT !.pattern = @ + 1]
    /\ BeginExtraction(PatternComponents(html), "pattern")

\* no API key: pattern matching at once
StartNoKey ==
    /\ pc = "start"
    /\ ~apiKey
    /\ PatternStart
    /\ UNCHANGED <<inputVars, aiVars, results, result, ddVars, patVars, poolVars, scrapeVars, routeVars>>

\* a detectAuthentication that calls the inference service whatever the key
StartWithKeyUnguarded ==
    /\ pc = "start"
    /\ invoked' = [invoked EXCEPT !.ai = @ + 1]
    /\ pc' = "ai_wait"
    /\ UNCHANGED <<inputVars, aiVars, exVars, results, result, ddVars, patVars, poolVars, scrapeVars, routeVars>>

\* an API key: runAIDetection calls the inference service and waits
StartWithKey ==
    /\ pc = "start"
    /\ apiKey
    /\ invoked' = [invoked EXCEPT !.ai = @ + 1]
    /\ pc' = "ai_wait"
    /\ UNCHANGED <<inputVars, aiVars, exVars, results, result, ddVars, patVars, poolVars, scrapeVars, routeVars>>

\* withTimeout rejects after TIMEOUTS.aiApi; detectAuthentication catches
AITimeout ==
    /\ pc = "ai_wait"
    /\ \E latency \in AILatencies : latency >= TIMEOUTS_aiApi
    /\ aiCall' = "timeout"
    /\ PatternStart
    /\ UNCHANGED <<inputVars, aiText, aiFound, results, result, ddVars, patVars, poolVars, scrapeVars, routeVars>>

\* generateContent rejects; detectAuthentication catches
AITransportFailure ==
    /\ pc = "ai_wait"
    /\ aiCall' = "transport"
    /\ PatternStart
    /\ UNCHANGED <<inputVars, aiText, aiFound, results, result, ddVars, patVars, poolVars, scrapeVars, routeVars>>

\* the response arrives in time: parseAIOutput, then extractSnippetsFromPage
\* on its components; a throw of either is caught by detectAuthentication
AIResponse ==
    /\ pc = "ai_wait"
    /\ \E latency \in AILatencies : latency <= TIMEOUTS_aiApi
    /\ \E text \in AITexts :
        LET aiData == parseAIOutput(text) IN
        /\ aiCall' = "text"
        /\ aiText' = text
        /\ IF aiData.ok /\ \A i \in 1..Len(aiData.components) : aiData.components[i].hasDetails
           THEN /\ aiFound' = aiData.found
                /\ BeginExtraction(aiData.components, "ai")
                /\ UNCHANGED invoked
           ELSE /\ aiFound' = (aiData.ok /\ aiData.found)
                /\ PatternStart
    /\ UNCHANGED <<inputVars, results, result, ddVars, patVars, poolVars, scrapeVars, routeVars>>

\* the trySelector call candidate i waits for returns
ResolveStep(i) ==
    /\ pc = "extract"
    /\ ex[i].stage # "done"
    /\ ex[i].busyUntil = now
    /\ \E found \in AttemptResults(components[i], ex[i]), dur \in TrySelectorDurations(FALSE) :
           ex' = [ex EXCEPT ![i] = ExtractOneStep(components[i], ex[i], found, dur)]
    /\ UNCHANGED <<pc, inputVars, aiVars, path, components, now, timedOut, results, result, invoked, ddVars, patVars, poolVars, scrapeVars, routeVars>>

\* time passes until the next call returns or the timer fires
Tick ==
    /\ pc = "extract"
    /\ Pending # {}
    /\ \A i \in Pending : ex[i].busyUntil > now
    /\ now < TIMEOUTS_extraction
    /\ now' = NextEvent
    /\ UNCHANGED <<pc, inputVars, aiVars, path, components, ex, timedOut, results, result, invoked, ddVars, patVars, poolVars, scrapeVars, routeVars>>

\* the caller of extractSnippetsFromPage goes on with the race's value:
\* removeDuplicates, and the DetectionResult is returned
Return(raceValue) ==
    LET unique == removeDuplicates(raceValue) IN
    /\ results' = raceValue
    /\ result' = IF path = "ai" THEN AIResult(aiFound, unique) ELSE PatternResult(unique)
    /\ pc' = "done"

\* Promise.all wins the race
AllResolved ==
    /\ pc = "extract"
    /\ AllDone
    /\ Return(ResolvedResults(components, ex))
    /\ UNCHANGED <<inputVars, aiVars, exVars, invoked, ddVars, patVars, poolVars, scrapeVars, routeVars>>

\* the 35 s timer wins the race
CeilingReached ==
    /\ pc = "extract"
    /\ now = TIMEOUTS_extraction
    /\ timedOut' = TRUE
    /\ Return(TimeoutResults(components))
    /\ UNCHANGED <<inputVars, aiVars, path, components, ex, now, invoked, ddVars, patVars, poolVars, scrapeVars, routeVars>>

Init ==
    /\ pc = "start"
    /\ html \in PipelineDocs
    /\ apiKey \in BOOLEAN
    /\ pageClosed \in BOOLEAN
    /\ aiCall = "none"
    /\ aiText = <<>>
    /\ aiFound = FALSE
    /\ path = "none"
    /\ components = <<>>
    /\ ex = <<>>
    /\ now = 0
    /\ timedOut = FALSE
    /\ results = <<>>
    /\ result = NoResult
    /\ invoked = [ai |-> 0, pattern |-> 0]
    /\ DedupIdle /\ PatternIdle /\ PoolIdle /\ ScrapeIdle /\ RoutesIdle

Next ==
    \/ StartNoKey
    \/ StartWithKey
    \/ AITimeout
    \/ AITransportFailure
    \/ AIResponse
    \/ \E i \in 1..Len(ex) : ResolveStep(i)
    \/ Tick
    \/ AllResolved
    \/ CeilingReached

Spec == Init /\ [][Next]_vars

\* ---------------------------------------------------------------- claims on detectAuthentication

Returned == pc = "done"

\* the candidates whose extractOne had not returned when the race was decided
Unresolved == { i \in 1..Len(ex) : ex[i].stage # "done" }

\* a snippet that holds markup read from the live page
HoldsMarkup(snippet) == \E m \in PageMarkups : snippet.pre = m.pre

\* C1: every DetectionResult returned has found = (components is non-empty),
\* on the AI path and on the pattern path, whatever the inference service answers.
C1_FoundIffComponents ==
    Returned => (result.found <=> Len(result.components) > 0)

\* a response text that holds no object the parser could read
NoParseableJson(text) ==
    \A i \in 1..Len(text) : text[i].kind \notin {"json", "comma", "slashes"}

C2_AIFailed ==
    /\ apiKey
    /\ \/ aiCall \in {"timeout", "transport"}
       \/ aiCall = "text" /\ NoParseableJson(aiText)

\* C2: with an API key, when the inference call times out, fails in transport
\* or returns text with no parseable JSON object, the result returned has
\* detectionMethod "pattern" and success true.
C2_AIFailureFallsBackToPattern ==
    (Returned /\ C2_AIFailed) =>
        (result.detectionMethod = "pattern" /\ result.success)

\* the response was prose around braces that hold no JSON, and the pattern
\* path found components
C2_Witness ==
    /\ Returned /\ apiKey /\ aiCall = "text"
    /\ Len(aiText) = 3 /\ NoParseableJson(aiText)
    /\ result.detectionMethod = "pattern" /\ Len(result.components) = 2

\* C3: extractSnippetsFromPage returns one component per candidate, in the
\* candidates' order, each with a snippet, whether Promise.all or the 35 s
\* timer decided the race; when the timer did, every candidate still
\* unresolved carries the timeout placeholder.
C3_OnePerCandidateInOrder ==
    Returned =>
        /\ Len(results) = Len(components)
        /\ \A i \in 1..Len(components) :
            /\ results[i].type = components[i].type
            /\ results[i].details = components[i].details
            /\ Truthy(results[i].snippet)
            /\ ~timedOut => results[i].snippet = ex[i].snippet
            /\ (timedOut /\ i \in Unresolved) =>
                   results[i].snippet = TimeoutSnippet(components[i].type)

\* the timer decided a race of two candidates, one resolved and one not
C3_Witness ==
    /\ Returned /\ timedOut /\ Len(results) = 2
    /\ Unresolved # {} /\ Unresolved # {1, 2}

\* C4: the batch is returned no later than TIMEOUTS.extraction after
\* extractSnippetsFromPage was called, also when a candidate's own chain of
\* calls would run longer.
C4_BatchWithinCeiling ==
    pc \in {"extract", "done"} => now <= TIMEOUTS_extraction

\* the batch was returned at the ceiling while a call that ends after it was in flight
C4_Witness ==
    /\ Returned /\ timedOut /\ now = TIMEOUTS_extraction
    /\ \E i \in Unresolved : ex[i].busyUntil > TIMEOUTS_extraction

\* C5: when the timer decides the race, a candidate whose extractOne had
\* already returned keeps the snippet it extracted; only the unresolved
\* candidates get the timeout placeholder.
C5_ResolvedKeepSnippetOnTimeout ==
    (Returned /\ timedOut) =>
        \A i \in 1..Len(components) :
            i \notin Unresolved => results[i].snippet = ex[i].snippet

\* C6: the components of a returned DetectionResult never hold two entries
\* with the same type and the same first 100 characters of snippet.
C6_NoTwoWithSameTypeAndPrefix ==
    Returned =>
        \A i, j \in 1..Len(result.components) :
            i < j =>
                ~ /\ result.components[i].type = result.components[j].type
                  /\ SlicePrefix(result.components[i].snippet)
                        = SlicePrefix(result.components[j].snippet)

\* two candidates got snippets that differ after a common first 100
\* characters, and one of them was dropped
C6_Witness ==
    /\ Returned /\ Len(results) = 2 /\ Len(result.components) = 1
    /\ HoldsMarkup(results[1].snippet)
    /\ results[1].snippet # results[2].snippet

C10_MarkupSnippetsTruncated ==
    Returned =>
        \A i \in 1..Len(results) :
            HoldsMarkup(results[i].snippet) =>
                results[i].snippet.len <= HTML_LIMITS_maxSnippet + 3

\* the object the parser read from a response text, when it read one
C11_ParsedData(text) == MatchJson(text)[1].data

\* a response the parser reads that violates the schema: "components" is no
\* list, or a listed component has a type outside the closed set
C11_SchemaViolated(text) ==
    /\ BraceIndexes(text) # {}
    /\ ParsesAfterCleaning(MatchJson(text))
    /\ \/ ~C11_ParsedData(text).isArray
       \/ \E i \in 1..Len(C11_ParsedData(text).components) :
              C11_ParsedData(text).components[i].type \notin ComponentTypes

\* C11: every component of a returned DetectionResult has a type in
\* {traditional, oauth, passwordless}; an inference response that violates the
\* schema (components no list, or a type outside the set) makes the AI path
\* fail, so the result comes from the pattern path and none of the response
\* is accepted.
C11_ClosedTypesOrPatternFallback ==
    Returned =>
        /\ \A i \in 1..Len(result.components) :
               result.components[i].type \in ComponentTypes
        /\ (aiCall = "text" /\ C11_SchemaViolated(aiText)) =>
               result.detectionMethod = "pattern"

\* whether the text s holds the text t
C12_Contains(s, t) ==
    \E i \in 1..(Len(s) - Len(t) + 1) : SubSeq(s, i, i + Len(t) - 1) = t

\* how the elements and nodes a sanitized snippet may not hold begin
C12_Removed ==
    { "<script", "<style", "<noscript", "<iframe", "<link", "<meta", "<template",
      "<head", "<!--" }

C12_Sanitized(snippet) ==
    \A t \in C12_Removed : ~C12_Contains(snippet.pre, t) /\ ~C12_Contains(snippet.rest, t)

\* C12: every snippet of a returned result that holds markup extracted from
\* the live page is sanitized: it holds no script, style, noscript, iframe,
\* link, meta, template or head element and no comment node.
C12_MarkupSnippetsSanitized ==
    Returned =>
        \A i \in 1..Len(result.components) :
            HoldsMarkup(result.components[i].snippet) =>
                C12_Sanitized(result.components[i].snippet)

C14_UnusablePageReported ==
    (Returned /\ pageClosed) => ~result.success

\* runAIDetection threw: the call timed out or failed in transport, the
\* response did not parse, or a listed component made the resolver throw
C15_AIFailed ==
    \/ aiCall \in {"timeout", "transport"}
    \/ /\ aiCall = "text"
       /\ \/ ~parseAIOutput(aiText).ok
          \/ \E i \in 1..Len(parseAIOutput(aiText).components) :
                 ~parseAIOutput(aiText).components[i].hasDetails

\* the candidates of the detector named by method
C15_CandidatesOf(method) ==
    IF method = "pattern" THEN PatternComponents(html)
    ELSE IF aiCall = "text" /\ parseAIOutput(aiText).ok THEN parseAIOutput(aiText).components
    ELSE <<>>

\* C15: within one detectAuthentication call the inference service is invoked
\* at most once, and never without an API key; the pattern detector runs
\* (once) if and only if the AI path was not attempted or failed; and every
\* component of the returned result comes from the one path named in
\* detectionMethod.
C15_OneInferenceCallOnePath ==
    /\ invoked.ai <= 1
    /\ invoked.pattern <= 1
    /\ invoked.ai > 0 => apiKey
    /\ pc \in {"extract", "done"} =>
           (invoked.pattern = 1 <=> (invoked.ai = 0 \/ C15_AIFailed))
    /\ Returned =>
        /\ result.detectionMethod \in {"ai", "pattern"}
        /\ result.detectionMethod = "pattern" <=> invoked.pattern = 1
        /\ \A j \in 1..Len(result.components) :
              \E i \in 1..Len(C15_CandidatesOf(result.detectionMethod)) :
                 /\ result.components[j].type
                        = C15_CandidatesOf(result.detectionMethod)[i].type
                 /\ result.components[j].details
                        = C15_CandidatesOf(result.detectionMethod)[i].details

\* the inference call timed out, the pattern detector ran once after it and
\* its two components were returned
C15_Witness ==
    /\ Returned /\ invoked = [ai |-> 1, pattern |-> 1] /\ aiCall = "timeout"
    /\ result.detectionMethod = "pattern" /\ Len(result.components) = 2

\* a document with no password field, no OAuth provider keyword and no
\* passwordless keyword
C18_NoAuthMarkers(doc) ==
    \A i \in 1..Len(doc) :
        doc[i] \notin { "<input type=\"password\">", "<input type='password'>",
                        "<input type=password>", "Google", "GitHub", "passkey",
                        "magic", "link", "otp", "one", "time" }

C18_NoSignInWord(doc) ==
    \A i \in 1..Len(doc) : doc[i] \notin { "Sign in", "Log in" }

C18_NothingFound ==
    ~result.found /\ result.components = <<>> /\ result.success

\* C18 as stated: on the pattern path, a document with no password field, no
\* OAuth provider keyword and no passwordless keyword yields found = false,
\* an empty components list and success = true.
C18_NoMarkersNothingFound ==
    (Returned /\ result.detectionMethod = "pattern" /\ C18_NoAuthMarkers(html))
        => C18_NothingFound

\* C18, amended: the same, for a document that also holds no sign-in / log-in
\* / login word.
C18_NoMarkersNoSignInNothingFound ==
    (/\ Returned /\ result.detectionMethod = "pattern"
     /\ C18_NoAuthMarkers(html) /\ C18_NoSignInWord(html))
        => C18_NothingFound

\* the inference call failed and the pattern path answered for a document
\* that holds none of the markers
C18_Witness ==
    /\ Returned /\ result.detectionMethod = "pattern" /\ aiCall = "transport"
    /\ C18_NoAuthMarkers(html) /\ C18_NoSignInWord(html)
    /\ C18_NothingFound

\* the provider named p stands next to a sign / log / continue verb
C19_Adjacent(doc, p) ==
    \E i \in 1..(Len(doc) - 1) :
        \/ "verb" \in PieceMarks(doc[i]) /\ p \in PieceMarks(doc[i + 1])
        \/ p \in PieceMarks(doc[i]) /\ "verb" \in PieceMarks(doc[i + 1])

C19_ReportsProvider(p) ==
    \E j \in 1..Len(result.components) :
        /\ result.components[j].type = "oauth"
        /\ \E k \in 1..Len(result.components[j].details.providers) :
              result.components[j].details.providers[k] = p

C19_Known == { oauthProviders[i] : i \in 1..Len(oauthProviders) }

\* C19 as stated: for every document in which a known OAuth provider name
\* stands next to a sign / log / continue verb, the returned result holds an
\* oauth component whose details.providers includes that provider, on the AI
\* path and on the pattern path alike.
C19_AdjacentProviderReported ==
    Returned =>
        \A p \in C19_Known : C19_Adjacent(html, p) => C19_ReportsProvider(p)

\* C19, amended: the same, for results of the pattern path.
C19_AdjacentProviderReportedByPattern ==
    (Returned /\ result.detectionMethod = "pattern") =>
        \A p \in C19_Known : C19_Adjacent(html, p) => C19_ReportsProvider(p)

\* the AI path was tried and failed on its response, and the pattern path
\* reported the provider that follows "Continue with"
C19_Witness ==
    /\ Returned /\ result.detectionMethod = "pattern" /\ aiCall = "text"
    /\ C19_Adjacent(html, "google") /\ C19_ReportsProvider("google")

\* the candidates whose OAuth fallback sweep has an attempt in flight
C28_Sweeping ==
    { i \in 1..Len(ex) : components[i].type = "oauth" /\ ex[i].stage = "fallback" }

\* C28: in the OAuth fallback every selector attempt ends within
\* TIMEOUTS.fallbackPerAttempt (3 s), and the whole sweep over all providers
\* and phrasing variants ends within TIMEOUTS.fallbackTotal (12 s) of its start.
C28_OAuthSweepWithinBudget ==
    pc \in {"extract", "done"} =>
        \A i \in C28_Sweeping :
            /\ ex[i].dur <= TIMEOUTS_fallbackPerAttempt
            /\ ex[i].busyUntil - ex[i].t0 <= TIMEOUTS_fallbackTotal

\* candidate i's extractOne moves from one await to the next, or returns
C29_Moves(i) == Len(ex') = Len(ex) /\ ex'[i] # ex[i]

\* the strategies of a chain are tried one at a time in the listed order: a
\* chain starts with its first strategy, goes from strategy k to k + 1 only,
\* returns markup as the strategy that matched returns it, and an extractOne
\* that has returned attempts nothing more
C29_InOrder(i) ==
    /\ ex[i].stage = "done" => ~C29_Moves(i)
    /\ C29_Moves(i) =>
          /\ ex[i].stage = "own" =>
                \/ ex'[i].stage = "done" /\ ex'[i].k = 0
                \/ ex'[i].stage = "fallback" /\ ex'[i].k = 1
          /\ ex[i].stage = "fallback" =>
                \/ ex'[i].stage = "done" /\ ex'[i].k = ex[i].k
                \/ ex'[i].stage = "fallback" /\ ex'[i].k = ex[i].k + 1
          /\ ex'[i].stage # "done" =>
                /\ ex'[i].k <= Len(FallbackSelectors(components[i]))
                /\ ex'[i].busyUntil >= now'

\* the chain of candidate i returns a placeholder
C29_ChainGivesUp(i) ==
    /\ C29_Moves(i) /\ ex[i].stage = "fallback"
    /\ ex'[i].stage = "done" /\ ~HoldsMarkup(ex'[i].snippet)

C29_AllTried(i) == ex[i].k = Len(FallbackSelectors(components[i]))

\* C29 as stated: in each fallback chain the strategies are tried one at a
\* time in the listed order, the snippet comes from the first that matches,
\* nothing is attempted after a success, and a placeholder is returned only
\* when every strategy was tried without a match.
C29_InOrderPlaceholderAfterAll ==
    [][\A i \in 1..Len(ex) :
          /\ C29_InOrder(i)
          /\ C29_ChainGivesUp(i) => C29_AllTried(i)]_vars

\* C29, amended: the same, but the OAuth chain also returns its placeholder
\* when more than TIMEOUTS.fallbackTotal has passed since it began, with
\* strategies left untried.
C29_InOrderPlaceholderAfterAllOrBudget ==
    [][\A i \in 1..Len(ex) :
          /\ C29_InOrder(i)
          /\ C29_ChainGivesUp(i) =>
                \/ C29_AllTried(i)
                \/ /\ components[i].type = "oauth"
                   /\ ex[i].busyUntil - ex[i].t0 > TIMEOUTS_fallbackTotal]_vars

\* an OAuth chain returned its placeholder after five of its six strategies,
\* and a chain of another candidate returned markup of its second strategy
C29_Witness ==
    /\ pc = "extract"
    /\ \E i, j \in 1..Len(ex) :
        /\ components[i].type = "oauth" /\ ex[i].stage = "done" /\ ex[i].k = 5
        /\ Len(FallbackSelectors(components[i])) = 6
        /\ ~HoldsMarkup(ex[i].snippet)
        /\ ex[j].stage = "done" /\ ex[j].k = 2 /\ HoldsMarkup(ex[j].snippet)

\* the trySelector call candidate i waits for ran its whole 8 s wait: the
\* element did not become visible
C30_NeverVisible(i) ==
    /\ ex[i].stage # "done"
    /\ ~(ex[i].stage = "fallback" /\ components[i].type = "oauth")
    /\ ex[i].dur >= TIMEOUTS_selector

\* C30: a selector yields a snippet only from an element that became visible
\* within the TIMEOUTS.selector (8 s) wait: an element that exists in the page
\* but never becomes visible counts as no match.
C30_SnippetOnlyFromVisible ==
    [][\A i \in 1..Len(ex) :
          (Len(ex') = Len(ex) /\ C30_NeverVisible(i))
              => ~HoldsMarkup(ex'[i].snippet)]_vars

\* the first {...} region of a response text
C35_FirstRegion(text) ==
    LET idx == BraceIndexes(text)
    IN  << text[CHOOSE i \in idx : \A j \in idx : i <= j] >>

\* C35: the parser takes the first balanced {...} region of the response:
\* it fails only when the response holds no such region or that region
\* does not parse, and otherwise answers with the object of that region,
\* whatever text, braces included, follows it
C35_FirstBalancedRegionParsed ==
    aiCall = "text" =>
        LET parsed == parseAIOutput(aiText)
        IN  IF BraceIndexes(aiText) = {} \/ ~ParsesAfterCleaning(C35_FirstRegion(aiText))
            THEN ~parsed.ok
            ELSE LET data == C35_FirstRegion(aiText)[1].data
                 IN  /\ parsed.ok
                     /\ parsed.found = (data.found = "true")
                     /\ parsed.components = IF data.isArray THEN data.components ELSE <<>>

\* the same for responses with at most one {...} region
C35_SingleRegionParsed ==
    Cardinality(BraceIndexes(aiText)) <= 1 => C35_FirstBalancedRegionParsed

\* ---------------------------------------------------------------- removeDuplicates on its own


\* snippets a component handed to removeDuplicates may carry
DedupSnippets ==
    { Undefined, Lit(""), Lit("no-snippet"),
      Markup("<form id=a", " x", 300), Markup("<form id=a", " y", 300) }

DedupComponents ==
    { [Component(t, NoDetails) EXCEPT !.snippet = s] :
        t \in ComponentTypes, s \in DedupSnippets }

\* detectAuthentication not called
DetectIdle ==
    /\ pc = "off"
    /\ html = <<>> /\ apiKey = FALSE /\ pageClosed = FALSE
    /\ aiCall = "none" /\ aiText = <<>> /\ aiFound = FALSE
    /\ path = "none" /\ components = <<>> /\ ex = <<>> /\ now = 0
    /\ timedOut = FALSE /\ results = <<>> /\ result = NoResult
    /\ invoked = [ai |-> 0, pattern |-> 0]

InitDedup ==
    /\ DetectIdle /\ PatternIdle /\ PoolIdle /\ ScrapeIdle /\ RoutesIdle
    /\ dd_in \in SeqsUpTo(DedupComponents, MaxDedupLen)
    /\ dd_out = <<>>
    /\ dd_twice = <<>>
    /\ dd_pc = "input"

DedupOnce ==
    /\ dd_pc = "input"
    /\ dd_out' = removeDuplicates(dd_in)
    /\ dd_pc' = "once"
    /\ UNCHANGED <<detectVars, patVars, poolVars, scrapeVars, routeVars, dd_in, dd_twice>>

DedupTwice ==
    /\ dd_pc = "once"
    /\ dd_twice' = removeDuplicates(dd_out)
    /\ dd_pc' = "twice"
    /\ UNCHANGED <<detectVars, patVars, poolVars, scrapeVars, routeVars, dd_in, dd_out>>

NextDedup == DedupOnce \/ DedupTwice

SpecDedup == InitDedup /\ [][NextDedup]_vars

\* ---------------------------------------------------------------- claims on removeDuplicates

\* C7: removeDuplicates is idempotent: applied to its own output it returns
\* that output unchanged, for every component sequence.
C7_DedupIdempotent == dd_pc = "twice" => dd_twice = dd_out

\* the first application dropped a component, the second ran on what was left
C7_Witness == dd_pc = "twice" /\ Len(dd_out) < Len(dd_in) /\ Len(dd_out) >= 2

\* a component with no snippet: the field absent, or the empty string
SnippetLess(c) == ~Truthy(c.snippet)

\* the key of the claim: the type and the first 100 characters of the
\* snippet, 'no-snippet' standing for them when there is no snippet
KeyOfClaim(c) ==
    <<c.type, IF SnippetLess(c) THEN Lit("no-snippet") ELSE SlicePrefix(c.snippet)>>

\* the components of comps from index i on that are the first with their key
RECURSIVE FirstsOfKey(_, _)
FirstsOfKey(comps, i) ==
    IF i > Len(comps) THEN <<>>
    ELSE (IF \A j \in 1..(i - 1) : KeyOfClaim(comps[j]) # KeyOfClaim(comps[i])
          THEN <<comps[i]>> ELSE <<>>)
         \o FirstsOfKey(comps, i + 1)

\* C8: removeDuplicates returns the subsequence of its input, in order, of
\* the components that are the first with their key (type, first 100
\* characters of snippet); snippet-less components share the 'no-snippet' key
\* of their type, so at most one of them per type is kept.
C8_KeepsFirstPerKey ==
    dd_pc \in {"once", "twice"} =>
        /\ dd_out = FirstsOfKey(dd_in, 1)
        /\ \A i, j \in 1..Len(dd_out) :
            (i < j /\ SnippetLess(dd_out[i]) /\ SnippetLess(dd_out[j]))
                => dd_out[i].type # dd_out[j].type

\* three snippet-less components, two of one type: the second of them was
\* dropped, the one of the other type kept
C8_Witness ==
    /\ dd_pc = "once" /\ Len(dd_in) = 3 /\ Len(dd_out) = 2
    /\ \A i \in 1..3 : SnippetLess(dd_in[i])
    /\ dd_in[1].type = dd_in[2].type
    /\ dd_out = <<dd_in[1], dd_in[3]>>

\* ---------------------------------------------------------------- the pattern detector on its own

\* the longest document (in pieces) given to the pattern detector on its own
MaxDocLen == 3

PatternDocs == SeqsUpTo(Pieces, MaxDocLen)

InitPattern ==
    /\ DetectIdle /\ DedupIdle /\ PoolIdle /\ ScrapeIdle /\ RoutesIdle
    /\ pat_doc \in PatternDocs
    /\ pat_out = <<>>
    /\ pat_pc = "input"

\* runPatternDetection assembles its candidates from the markup
PatternDetect ==
    /\ pat_pc = "input"
    /\ pat_out' = PatternComponents(pat_doc)
    /\ pat_pc' = "done"
    /\ UNCHANGED <<detectVars, ddVars, poolVars, scrapeVars, routeVars, pat_doc>>

NextPattern == PatternDetect

SpecPattern == InitPattern /\ [][NextPattern]_vars

\* ---------------------------------------------------------------- the evidence excerpt

HTML_LIMITS_maxSize == 15000
HTML_LIMITS_minSnippet == 20

\* What extractRelevantSections reads of a document: the strings its
\* extraction patterns match and their filters keep, in the order they are
\* pushed (equal text, equal string), the length of what stands between
\* <body...> and the last </body> (-1 when the body pattern does not
\* match), and the length of the document.
Section(t, n) == [text |-> t, len |-> n]

\* a link of 11 characters (<a>sign</a>), a small form, a long header
ExcerptSections == { Section("link", 11), Section("form", 60), Section("header", 9000) }

BodyOpenCloseLen == 13

ExcerptDocs ==
    { [matches |-> q, body |-> b, len |-> n] :
        q \in { <<>> } \cup { << x >> : x \in ExcerptSections }
               \cup { << x, y >> : x \in ExcerptSections, y \in ExcerptSections },
        b \in {-1, 0, 5, 19, 20, 16000},
        n \in {0, 10, 40, 20000} } \cap
    { doc \in [matches : Seq(ExcerptSections), body : Int, len : Nat] :
        /\ doc.body # -1 => doc.body + BodyOpenCloseLen <= doc.len
        /\ \A i \in 1..Len(doc.matches) : doc.matches[i].len <= doc.len }

\* [...new Set(sections)]: the first occurrence of each string, in order
Distinct(q) ==
    LET keep == { i \in 1..Len(q) : \A j \in 1..(i - 1) : q[j] # q[i] }
        RECURSIVE Pick(_)
        Pick(i) == IF i > Len(q) THEN <<>>
                   ELSE IF i \in keep THEN << q[i] >> \o Pick(i + 1) ELSE Pick(i + 1)
    IN  Pick(1)

\* sections.join('\n\n').length
JoinedLen(q) ==
    LET RECURSIVE Sum(_)
        Sum(i) == IF i > Len(q) THEN 0 ELSE q[i].len + Sum(i + 1)
    IN  IF q = <<>> THEN 0 ELSE Sum(1) + 2 * (Len(q) - 1)

\* extractRelevantSections: the excerpt, by where it is taken from and its
\* length.  An empty body content is falsy, and the document is sliced then.
extractRelevantSections(doc) ==
    LET joined == JoinedLen(Distinct(doc.matches))
    IN  IF joined < HTML_LIMITS_minSnippet
        THEN IF doc.body # -1 /\ Min(doc.body, HTML_LIMITS_maxSize) > 0
             THEN [from |-> "body", len |-> Min(doc.body, HTML_LIMITS_maxSize)]
             ELSE [from |-> "html", len |-> Min(doc.len, HTML_LIMITS_maxSize)]
        ELSE [from |-> "sections", len |-> Min(joined, HTML_LIMITS_maxSize)]

InitExcerpt ==
    /\ DetectIdle /\ DedupIdle /\ PoolIdle /\ ScrapeIdle /\ RoutesIdle
    /\ pat_doc \in ExcerptDocs
    /\ pat_out = <<>>
    /\ pat_pc = "input"

\* runAIDetection builds the excerpt of the markup for its prompt
ExcerptBuild ==
    /\ pat_pc = "input"
    /\ pat_out' = extractRelevantSections(pat_doc)
    /\ pat_pc' = "excerpt"
    /\ UNCHANGED <<detectVars, ddVars, poolVars, scrapeVars, routeVars, pat_doc>>

NextExcerpt == ExcerptBuild

SpecExcerpt == InitExcerpt /\ [][NextExcerpt]_vars

\* C34: the excerpt built for the inference call is never longer than
\* 15,000 characters and never shorter than the 20-character minimum: when
\* what the patterns extracted is shorter than 20 characters, it is the
\* content of the document body cut at 15,000 characters
C34_ExcerptWithinLimits ==
    pat_pc = "excerpt" =>
        /\ pat_out.len <= HTML_LIMITS_maxSize
        /\ pat_out.len >= HTML_LIMITS_minSnippet
        /\ JoinedLen(Distinct(pat_doc.matches)) < HTML_LIMITS_minSnippet =>
               /\ pat_out.from = "body"
               /\ pat_out.len = Min(pat_doc.body, HTML_LIMITS_maxSize)

\* the ceiling alone
C34_ExcerptUnderCeiling ==
    pat_pc = "excerpt" => pat_out.len <= HTML_LIMITS_maxSize

\* ---------------------------------------------------------------- claims on the pattern detector

\* the components of type t in comps
C16_OfType(comps, t) == { i \in 1..Len(comps) : comps[i].type = t }

\* the providers of the list that the document names next to a verb, on one line
C16_Matching(doc) ==
    { oauthProviders[i] : i \in { k \in 1..Len(oauthProviders) :
                                    MatchesProvider(doc, oauthProviders[k]) } }

\* C16: for every document the pattern detector yields at most one component
\* of each type, and every matching OAuth provider is listed in the one
\* oauth component.
C16_OnePerTypeProvidersMerged ==
    pat_pc = "done" =>
        /\ \A t \in ComponentTypes : Cardinality(C16_OfType(pat_out, t)) <= 1
        /\ \A i \in 1..Len(pat_out) : pat_out[i].type \in ComponentTypes
        /\ C16_Matching(pat_doc) # {} =>
              \E i \in C16_OfType(pat_out, "oauth") :
                 { pat_out[i].details.providers[k] :
                      k \in 1..Len(pat_out[i].details.providers) } = C16_Matching(pat_doc)

\* a document naming two providers after a verb: one oauth component lists both
C16_Witness ==
    /\ pat_pc = "done"
    /\ Cardinality(C16_Matching(pat_doc)) = 2
    /\ \E i \in 1..Len(pat_out) :
          pat_out[i].type = "oauth" /\ Len(pat_out[i].details.providers) = 2

\* a password input, with the type attribute quoted either way or not at all
C17_PasswordInputs ==
    { "<input type=\"password\">", "<input type='password'>", "<input type=password>" }

\* a form element that encloses a password input
C17_HasPasswordForm(doc) ==
    \E i, j, k \in 1..Len(doc) :
        /\ i < j /\ j < k
        /\ doc[i] = "<form>" /\ doc[j] \in C17_PasswordInputs /\ doc[k] = "</form>"

\* C17: for every document that holds a form element enclosing a password
\* input, however the type attribute is quoted and whatever other text the
\* document holds, the pattern detector produces a traditional component.
C17_PasswordFormGivesTraditional ==
    (pat_pc = "done" /\ C17_HasPasswordForm(pat_doc)) =>
        \E i \in 1..Len(pat_out) : pat_out[i].type = "traditional"

\* ---------------------------------------------------------------- the browser pool

\* Engine instances and launches share their numbering: launch n, when it
\* succeeds, yields instance n.  A promise is named by the launch it stands for.

\* the number of requests that call createContext
MaxRequests == 3

IDLE_TIMEOUT == 300000

\* the period of the idle check set by startIdleMonitoring
IdleCheckPeriod == 60000

Requests == 1..MaxRequests

\* a request that has not called createContext yet
NotCalled ==
    [pc |-> "idle", launch |-> 0, got |-> 0, error |-> 0, started |-> FALSE,
     pendingAtCall |-> {}]

PendingLaunches == { n \in 1..Len(launches) : launches[n] = "pending" }

\* the requests whose awaited promise has settled: their continuations are
\* microtasks, which run before any other task of the event loop
Settled ==
    { r \in Requests : rq[r].pc = "awaitBrowser" /\ launches[rq[r].launch] # "pending" }

\* a getBrowser that never waits for a launch in flight
GetBrowserBranchNoWait(b, conn, initializing, promise) ==
    IF b # 0 /\ b \in conn THEN "reuse" ELSE "launch"

\* the branch getBrowser takes: this.browser when it is connected, the
\* promise of the launch in flight, or a new launch
GetBrowserBranch(b, conn, initializing, promise) ==
    IF b # 0 /\ b \in conn THEN "reuse"
    ELSE IF initializing /\ promise # 0 THEN "wait"
    ELSE "launch"

\* request r calls createContext: getBrowser runs to its return, and r awaits
\* what it returned
CreateContext(r) ==
    /\ rq[r].pc = "idle"
    /\ Settled = {}
    /\ LET branch == GetBrowserBranch(browser, connected, isInitializing, initPromise)
           called == [NotCalled EXCEPT !.pendingAtCall = PendingLaunches]
       IN  CASE branch = "reuse" ->
                 /\ rq' = [rq EXCEPT ![r] = [called EXCEPT !.pc = "newContext",
                                                           !.got = browser]]
                 /\ idleTime' = 0
                 /\ UNCHANGED <<isInitializing, initPromise, launches>>
             [] branch = "wait" ->
                 /\ rq' = [rq EXCEPT ![r] = [called EXCEPT !.pc = "awaitBrowser",
                                                           !.launch = initPromise]]
                 /\ UNCHANGED <<isInitializing, initPromise, launches, idleTime>>
             [] branch = "launch" ->
                 /\ isInitializing' = TRUE
                 /\ launches' = Append(launches, "pending")
                 /\ initPromise' = Len(launches) + 1
                 /\ rq' = [rq EXCEPT ![r] = [called EXCEPT !.pc = "awaitBrowser",
                                                           !.launch = Len(launches) + 1,
                                                           !.started = TRUE]]
                 /\ UNCHANGED idleTime
    /\ UNCHANGED <<browser, connected, timers, idleCheckInterval, closing,
                   detectVars, ddVars, patVars, scrapeVars, routeVars>>

\* launchBrowser() resolves: the .then handler of launch n runs, and
\* startIdleMonitoring replaces the timer
LaunchSucceeds(n) ==
    /\ launches[n] = "pending"
    /\ launches' = [launches EXCEPT ![n] = "ok"]
    /\ browser' = n
    /\ connected' = connected \cup {n}
    /\ isInitializing' = FALSE
    /\ idleTime' = 0
    /\ timers' = (timers \ {idleCheckInterval}) \cup {n}
    /\ idleCheckInterval' = n
    /\ UNCHANGED <<initPromise, rq, closing, detectVars, ddVars, patVars, scrapeVars, routeVars>>

\* a .catch handler that leaves isInitializing and initPromise as they are
LaunchFailsKeepsPromise(n) ==
    /\ launches[n] = "pending"
    /\ launches' = [launches EXCEPT ![n] = "failed"]
    /\ UNCHANGED <<isInitializing, initPromise>>
    /\ UNCHANGED <<browser, connected, rq, monitorVars, detectVars, ddVars, patVars, scrapeVars, routeVars>>

\* launchBrowser() rejects: the .catch handler of launch n runs
LaunchFails(n) ==
    /\ launches[n] = "pending"
    /\ launches' = [launches EXCEPT ![n] = "failed"]
    /\ isInitializing' = FALSE
    /\ initPromise' = 0
    /\ UNCHANGED <<browser, connected, rq, monitorVars, detectVars, ddVars, patVars, scrapeVars, routeVars>>

\* the promise request r awaits in createContext has settled: r goes on with
\* the instance, or createContext rejects with the launch error
Receive(r) ==
    /\ rq[r].pc = "awaitBrowser"
    /\ launches[rq[r].launch] # "pending"
    /\ rq' = [rq EXCEPT ![r] =
                IF launches[rq[r].launch] = "ok"
                THEN [@ EXCEPT !.pc = "newContext", !.got = rq[r].launch]
                ELSE [@ EXCEPT !.pc = "failed", !.error = rq[r].launch]]
    /\ UNCHANGED <<browser, connected, isInitializing, initPromise, launches,
                   monitorVars, detectVars, ddVars, patVars, scrapeVars, routeVars>>

\* browser.newContext and context.route on the instance r holds: they throw
\* when the instance is gone
NewContext(r) ==
    /\ rq[r].pc = "newContext"
    /\ Settled = {}
    /\ rq' = [rq EXCEPT ![r].pc = IF rq[r].got \in connected THEN "done" ELSE "failed"]
    /\ UNCHANGED <<browser, connected, isInitializing, initPromise, launches,
                   monitorVars, detectVars, ddVars, patVars, scrapeVars, routeVars>>

\* an engine instance crashes or is killed: isConnected() turns false
Disconnect(b) ==
    /\ b \in connected
    /\ Settled = {}
    /\ connected' = connected \ {b}
    /\ UNCHANGED <<browser, isInitializing, initPromise, launches, rq,
                   monitorVars, detectVars, ddVars, patVars, scrapeVars, routeVars>>

\* request r is done with its context: closeContext
ReleaseContext(r) ==
    /\ rq[r].pc = "done"
    /\ Settled = {}
    /\ rq' = [rq EXCEPT ![r].pc = "closed"]
    /\ UNCHANGED <<browser, connected, isInitializing, initPromise, launches,
                   monitorVars, detectVars, ddVars, patVars, scrapeVars, routeVars>>

\* the requests whose next step is due long before the idle check's period
\* has passed: a settled promise to receive, a newContext call in flight
Due == Settled \cup { r \in Requests : rq[r].pc = "newContext" }

\* IdleCheckPeriod passes and the interval callback runs: when the pool was
\* idle for more than IDLE_TIMEOUT and holds a browser, closeBrowser is called
\* and runs to its await of browser.close()
PoolTick ==
    /\ timers # {}
    /\ Due = {}
    /\ idleTime' = Min(idleTime + IdleCheckPeriod, IDLE_TIMEOUT + IdleCheckPeriod)
    /\ IF idleTime' > IDLE_TIMEOUT /\ browser # 0
       THEN /\ timers' = timers \ {idleCheckInterval}
            /\ idleCheckInterval' = 0
            /\ closing' = closing \cup {browser}
       ELSE UNCHANGED <<timers, idleCheckInterval, closing>>
    /\ UNCHANGED <<browser, connected, isInitializing, initPromise, launches, rq,
                   detectVars, ddVars, patVars, scrapeVars, routeVars>>

\* browser.close() on instance b settles, with or without an error: the
\* finally block of closeBrowser sets this.browser to null
CloseEnd(b) ==
    /\ b \in closing
    /\ Settled = {}
    /\ closing' = closing \ {b}
    /\ connected' = connected \ {b}
    /\ browser' = 0
    /\ UNCHANGED <<isInitializing, initPromise, launches, rq, idleTime, timers,
                   idleCheckInterval, detectVars, ddVars, patVars, scrapeVars, routeVars>>

InitPool ==
    /\ DetectIdle /\ DedupIdle /\ PatternIdle /\ ScrapeIdle /\ RoutesIdle
    /\ browser = 0
    /\ connected = {}
    /\ isInitializing = FALSE
    /\ initPromise = 0
    /\ launches = <<>>
    /\ rq = [r \in Requests |-> NotCalled]
    /\ idleTime = 0
    /\ timers = {}
    /\ idleCheckInterval = 0
    /\ closing = {}

NextPool ==
    \/ \E r \in Requests : CreateContext(r)
    \/ \E n \in 1..Len(launches) : LaunchSucceeds(n)
    \/ \E n \in 1..Len(launches) : LaunchFails(n)
    \/ \E r \in Requests : Receive(r)
    \/ \E r \in Requests : NewContext(r)
    \/ \E b \in connected : Disconnect(b)

\* requests, launches and disconnects, with no idle check running
SpecPool == InitPool /\ [][NextPool]_vars

\* the same with requests closing their contexts, time passing, the idle
\* check and closeBrowser
NextPoolIdle ==
    \/ NextPool
    \/ \E r \in Requests : ReleaseContext(r)
    \/ PoolTick
    \/ \E b \in closing : CloseEnd(b)

SpecPoolIdle == InitPool /\ [][NextPoolIdle]_vars

\* the same under the scheduling of the event loop: an active interval
\* timer keeps firing, a browser.close() that was called settles, and the
\* continuation of a settled promise and a newContext call in flight run
SpecPoolIdleFair ==
    /\ InitPool /\ [][NextPoolIdle]_vars
    /\ WF_vars(PoolTick)
    /\ WF_vars(\E b \in closing : CloseEnd(b))
    /\ WF_vars(\E r \in Requests : Receive(r))
    /\ WF_vars(\E r \in Requests : NewContext(r))

\* ---------------------------------------------------------------- claims on the browser pool

\* the requests that have called createContext
C20_Called == { r \in Requests : rq[r].pc # "idle" }

\* the requests that called and found no connected engine instance
C20_FoundNoEngine == { r \in C20_Called : rq[r].launch # 0 }

\* C20: when several requests call createContext while no engine instance
\* exists, exactly one launch is started and each of them receives the outcome
\* of that launch: no second launch starts while one is in flight, a request
\* that calls while a launch is in flight awaits that launch, and what a
\* request receives is the instance or the error of the launch it awaited.
C20_OneLaunchShared ==
    /\ Cardinality(PendingLaunches) <= 1
    /\ \A r \in C20_FoundNoEngine :
        /\ rq[r].pendingAtCall # {} =>
               (rq[r].launch \in rq[r].pendingAtCall /\ ~rq[r].started)
        /\ rq[r].pc \in {"newContext", "done"} =>
               (launches[rq[r].launch] = "ok" /\ rq[r].got = rq[r].launch)
        /\ (rq[r].pc = "failed" /\ rq[r].got = 0) =>
               (launches[rq[r].launch] = "failed" /\ rq[r].error = rq[r].launch)
    /\ \A n \in 1..Len(launches) :
           Cardinality({ r \in Requests : rq[r].started /\ rq[r].launch = n }) = 1
    /\ (C20_Called # {} /\ \A n \in 1..Len(launches) : launches[n] = "pending") =>
           (Len(launches) = 1 /\ \A r \in C20_Called : rq[r].launch = 1)

\* three requests called while no instance existed: one launch was started,
\* it failed, and each of the three received its error
C20_Witness ==
    /\ Len(launches) = 1
    /\ \A r \in Requests : rq[r].pc = "failed" /\ rq[r].error = 1

\* the running instances the pool holds no reference to: not this.browser,
\* and not the instance a closeBrowser call is closing
C21_Orphans == { b \in connected : b # browser /\ b \notin closing }

\* C21: over every interleaving of requests, disconnects, idle closes and
\* relaunches the pool has at most one live instance that it launched: no
\* instance is left running without a reference to it while another is
\* launched.
C21_AtMostOneLiveInstance ==
    /\ Cardinality(connected) <= 1
    /\ C21_Orphans # {} => PendingLaunches = {}

\* the requests that hold an open context on instance b
C22_Holding(b) == { r \in Requests : rq[r].pc = "done" /\ rq[r].got = b }

\* the requests that were just handed instance b by getBrowser
C22_Handed(b) == { r \in Requests : rq[r].pc = "newContext" /\ rq[r].got = b }

\* C22: the idle monitor closes the engine only after more than IDLE_TIMEOUT
\* with no use: never while a request holds an open context on it, and no
\* request is handed an engine that is being closed.
C22_ClosedOnlyWhenUnused ==
    \A b \in closing :
        /\ C22_Holding(b) = {}
        /\ C22_Handed(b) = {}

\* no request uses the pool any more: each has called createContext and has
\* closed its context or failed, and no launch is in flight
C39_Quiet ==
    /\ \A r \in Requests : rq[r].pc \in {"closed", "failed"}
    /\ PendingLaunches = {}

C39_AtMostOneTimer == Cardinality(timers) <= 1

\* C39: once no request uses the pool any more, the idle monitor eventually
\* closes the engine and stops its timer (no instance is left running and
\* no interval timer active), and at most one idle timer is active at any
\* time
C39_IdleEngineEventuallyClosed ==
    /\ [](C39_Quiet /\ connected # {} => <>(connected = {} /\ timers = {}))
    /\ []C39_AtMostOneTimer

\* the same when the pool still holds a reference to every running
\* instance and no closeBrowser call is about to drop the reference to a
\* newer one
C39_ReferencedEngineEventuallyClosed ==
    [](C39_Quiet /\ connected # {} /\ C21_Orphans = {} /\ closing \subseteq {browser}
           => <>(connected = {} /\ timers = {}))

\* the launches that failed
C38_Failed == { n \in 1..Len(launches) : launches[n] = "failed" }

\* every request that awaited a failed launch called while it was in flight
\* (or started it), and has received its error or is about to, before
\* anything else runs
C38_WaitersReceiveError ==
    \A n \in C38_Failed : \A r \in Requests :
        rq[r].launch = n =>
            /\ rq[r].started \/ n \in rq[r].pendingAtCall
            /\ rq[r].pc \in {"awaitBrowser", "failed"}
            /\ rq[r].pc = "awaitBrowser" => r \in Settled
            /\ rq[r].pc = "failed" => (rq[r].error = n /\ rq[r].got = 0)

\* when the last launch started has failed, the flags are reset and the
\* next getBrowser call starts a launch
C38_FlagsReset ==
    (launches # <<>> /\ launches[Len(launches)] = "failed") =>
        /\ ~isInitializing
        /\ initPromise = 0
        /\ GetBrowserBranch(browser, connected, isInitializing, initPromise) = "launch"

\* C38 as stated: when a launch fails, every request waiting on it receives
\* the error, the pool is back in its uninitialized state (isInitializing
\* false, no stored launch promise, no browser), and the next request starts
\* a fresh launch instead of waiting on or reusing the failed one
C38_FailureResetsPool ==
    /\ C38_WaitersReceiveError
    /\ C38_FlagsReset
    /\ (launches # <<>> /\ launches[Len(launches)] = "failed") => browser = 0

\* C38, amended: the same, with no connected browser: this.browser is null
\* or still the disconnected instance it held when the launch started
C38_FailureResetsPoolButBrowser ==
    /\ C38_WaitersReceiveError
    /\ C38_FlagsReset
    /\ (launches # <<>> /\ launches[Len(launches)] = "failed") =>
           (browser = 0 \/ browser \notin connected)

\* the second launch failed while the first instance, disconnected, was
\* still referenced: the request that started it and the one that waited on
\* it have both received its error
C38_Witness ==
    /\ launches = << "ok", "failed" >>
    /\ browser = 1 /\ 1 \notin connected
    /\ \E r1, r2 \in Requests :
           /\ r1 # r2
           /\ rq[r1].started /\ ~rq[r2].started
           /\ \A r \in {r1, r2} : rq[r].pc = "failed" /\ rq[r].error = 2

\* ---------------------------------------------------------------------
\* scrapeWebsite: one request, raced against the total timeout
\* ---------------------------------------------------------------------

MaxScrapes == 2

\* the awaited steps of performScrape's try block, in order
ScrapeSteps == << "createContext", "newPage", "navigate", "waitForModernWebApp",
                  "waitForTimeout", "extract" >>

InTryBlock == ps_pc \in { ScrapeSteps[j] : j \in 1..Len(ScrapeSteps) }

StepAfter(step) ==
    LET i == CHOOSE j \in 1..Len(ScrapeSteps) : ScrapeSteps[j] = step
    IN  IF i = Len(ScrapeSteps) THEN "ok" ELSE ScrapeSteps[i + 1]

PsRunning == InTryBlock \/ ps_pc \in {"closePage", "closeContext"}

\* what a close that throws would do without a try/catch around it
CloseFailureEscalates(closed) == IF closed THEN "continue" ELSE "throw"

\* cleanupResources wraps each close in its own try/catch and closeContext
\* has one of its own: a close that throws is logged and the cleanup goes on
CloseFailure(closed) == "continue"

ScrapeFailure(msg) == [success |-> FALSE, error |-> msg, page |-> "none", context |-> "none",
                       screenshot |-> FALSE]

\* the page and context variables of scrapeWebsite when its catch block
\* runs: they are assigned only after the awaited race has resolved, and
\* the catch block runs only when it rejected
OuterCleanupTargets == {}

\* performScrape resolves with res, or rejects with the error res.error.
\* While the race is open scrapeWebsite returns res, a rejection going
\* through its catch block; after the timeout nobody awaits the outcome
Settle(res, rejected, closing_of) ==
    /\ IF sc_pc = "racing"
       THEN /\ sc_pc' = "returned"
            /\ sc_result' = IF rejected THEN ScrapeFailure(res.error) ELSE res
       ELSE UNCHANGED <<sc_pc, sc_result>>
    /\ sc_attempted' = sc_attempted \cup closing_of
                       \cup (IF sc_pc = "racing" /\ rejected THEN OuterCleanupTargets ELSE {})

\* a call of scrapeWebsite, the first or one made after the previous call
\* and its performScrape have ended
ScrapeStart ==
    /\ sc_pc \in {"off", "returned"}
    /\ ~PsRunning
    /\ sc_served < MaxScrapes
    /\ sc_served' = sc_served + 1
    /\ sc_unclosed' = IF /\ sc_pc = "returned" /\ ~sc_result.success
                         /\ sc_context = "open" /\ "context" \notin sc_attempted
                      THEN sc_unclosed + 1 ELSE sc_unclosed
    /\ sc_pc' = "racing"
    /\ ps_pc' = ScrapeSteps[1]
    /\ sc_context' = "none" /\ sc_page' = "none"
    /\ sc_attempted' = {} /\ sc_failed' = {}
    /\ ps_error' = "" /\ sc_result' = NoScrapeResult
    /\ UNCHANGED <<detectVars, ddVars, patVars, poolVars, routeVars>>

\* an awaited step of the try block resolves; after the last one
\* performScrape returns the success result, page and context alive
StepSucceeds(screenshot) ==
    /\ InTryBlock
    /\ ps_pc # "extract" => ~screenshot
    /\ ps_pc' = StepAfter(ps_pc)
    /\ sc_context' = IF ps_pc = "createContext" THEN "open" ELSE sc_context
    /\ sc_page' = IF ps_pc = "newPage" THEN "open" ELSE sc_page
    /\ IF ps_pc = "extract"
       THEN Settle([success |-> TRUE, error |-> "", page |-> "open", context |-> "open",
                    screenshot |-> screenshot], FALSE, {})
       ELSE UNCHANGED <<sc_pc, sc_result, sc_attempted>>
    /\ UNCHANGED <<sc_failed, ps_error, sc_served, sc_unclosed,
                   detectVars, ddVars, patVars, poolVars, routeVars>>

\* an awaited step of the try block throws: the catch block of performScrape
\* calls cleanupResources with whatever it has opened
StepFails ==
    /\ InTryBlock
    /\ ps_error' = ps_pc
    /\ ps_pc' = IF sc_page # "none" THEN "closePage"
                ELSE IF sc_context # "none" THEN "closeContext"
                ELSE "failed"
    /\ IF sc_page = "none" /\ sc_context = "none"
       THEN Settle(ScrapeFailure(ps_pc), FALSE, {})
       ELSE UNCHANGED <<sc_pc, sc_result, sc_attempted>>
    /\ UNCHANGED <<sc_context, sc_page, sc_failed, sc_served, sc_unclosed,
                   detectVars, ddVars, patVars, poolVars, routeVars>>

\* cleanupResources: page.close() settles
ClosePage(closed) ==
    /\ ps_pc = "closePage"
    /\ sc_page' = IF closed THEN "closed" ELSE sc_page
    /\ sc_failed' = IF closed THEN sc_failed ELSE sc_failed \cup {"page"}
    /\ IF CloseFailure(closed) = "continue"
       THEN /\ ps_pc' = "closeContext"
            /\ sc_attempted' = sc_attempted \cup {"page"}
            /\ UNCHANGED <<sc_pc, sc_result>>
       ELSE /\ ps_pc' = "rejected"
            /\ Settle(ScrapeFailure("page.close"), TRUE, {"page"})
    /\ UNCHANGED <<sc_context, ps_error, sc_served, sc_unclosed,
                   detectVars, ddVars, patVars, poolVars, routeVars>>

\* cleanupResources: browserPool.closeContext settles, and performScrape
\* returns its failure result
CloseContext(closed) ==
    /\ ps_pc = "closeContext"
    /\ sc_context' = IF closed THEN "closed" ELSE sc_context
    /\ sc_failed' = IF closed THEN sc_failed ELSE sc_failed \cup {"context"}
    /\ IF CloseFailure(closed) = "continue"
       THEN /\ ps_pc' = "failed"
            /\ Settle(ScrapeFailure(ps_error), FALSE, {"context"})
       ELSE /\ ps_pc' = "rejected"
            /\ Settle(ScrapeFailure("context.close"), TRUE, {"context"})
    /\ UNCHANGED <<sc_page, ps_error, sc_served, sc_unclosed,
                   detectVars, ddVars, patVars, poolVars, routeVars>>

\* the timer of executeWithTimeout fires before performScrape has settled:
\* the race rejects, the catch block of scrapeWebsite cleans up what its
\* own variables hold and returns the failure; performScrape goes on
TotalTimeout ==
    /\ sc_pc = "racing"
    /\ PsRunning
    /\ sc_pc' = "returned"
    /\ sc_result' = ScrapeFailure("Scraping timeout")
    /\ sc_attempted' = sc_attempted \cup OuterCleanupTargets
    /\ UNCHANGED <<ps_pc, sc_context, sc_page, sc_failed, ps_error, sc_served,
                   sc_unclosed, detectVars, ddVars, patVars, poolVars, routeVars>>

InitScrape ==
    /\ DetectIdle /\ DedupIdle /\ PatternIdle /\ PoolIdle /\ ScrapeIdle /\ RoutesIdle

NextScrape ==
    \/ ScrapeStart
    \/ \E screenshot \in BOOLEAN : StepSucceeds(screenshot)
    \/ StepFails
    \/ \E closed \in BOOLEAN : ClosePage(closed)
    \/ \E closed \in BOOLEAN : CloseContext(closed)
    \/ TotalTimeout

SpecScrape == InitScrape /\ [][NextScrape]_vars

\* scrapeWebsite has reported failure and its performScrape has ended
C23_FailureReported == sc_pc = "returned" /\ ~sc_result.success /\ ~PsRunning

\* C23: on every exit path of scrapeWebsite that reports failure, the total
\* timeout included, a close is attempted on every page and every context
\* opened for the request, so that no failed request leaves a context that
\* nothing tried to close
C23_CloseAttemptedOnEveryFailure ==
    /\ C23_FailureReported =>
          /\ sc_page # "none" => "page" \in sc_attempted
          /\ sc_context # "none" => "context" \in sc_attempted
    /\ sc_unclosed = 0

\* C24: a close that throws is never escalated: neither performScrape nor
\* scrapeWebsite rejects, and the ScrapeResult returned is the one the
\* request's outcome alone determines (total timeout, the step that threw,
\* or success), whatever the closes did
C24_CloseFailureNeverEscalated ==
    /\ ps_pc # "rejected"
    /\ sc_pc \in {"off", "racing", "returned"}
    /\ sc_pc = "returned" =>
          \/ sc_result = ScrapeFailure("Scraping timeout")
          \/ ps_pc = "failed" /\ sc_result = ScrapeFailure(ps_error)
                              /\ ps_error \in { ScrapeSteps[j] : j \in 1..Len(ScrapeSteps) }
          \/ ps_pc = "ok" /\ sc_result.success /\ sc_result.page = "open"
                          /\ sc_result.context = "open"

\* a close threw during cleanup and scrapeWebsite returned the failure of
\* the step that had thrown
C24_Witness ==
    /\ sc_pc = "returned" /\ ps_pc = "failed"
    /\ sc_failed # {}
    /\ sc_result = ScrapeFailure(ps_error)

\* ---------------------------------------------------------------------
\* the parsed document of the two heuristic routes
\* ---------------------------------------------------------------------

\* A document is the sequence of its nodes in document order; a node has
\* its tag, its parent (0 for the root element), the length of the text
\* nodes directly under it, and what its attributes and text amount to for
\* the scorers: "password", "login" (an auth keyword scoring under 5),
\* "plain" (no keyword); for the whole-page route it has the attribute
\* values (type, role, class or id, src) and the text itself
NoAttribs == [type |-> "", role |-> "", class |-> "", src |-> ""]

DomNode(tg, up, own, what, prov) ==
    [tag |-> tg, parent |-> up, text |-> own, kind |-> what, brand |-> prov,
     attrs |-> NoAttribs, str |-> "", inner |-> 0]

\* an element with attributes and its own text spelled out
Element(tg, up, attribs, txt) ==
    [DomNode(tg, up, Len(txt), "", "") EXCEPT !.attrs = attribs, !.str = txt]

\* html > body > one wrapper element
Skeleton(tg, own) ==
    << DomNode("html", 0, 0, "", ""), DomNode("body", 1, 0, "", ""),
       DomNode(tg, 2, own, "", "") >>

\* nothing, or the node under the body or under the wrapper
Placed(tg, own, what, prov) ==
    { <<>> } \cup { << DomNode(tg, up, own, what, prov) >> : up \in 2..3 }

\* parents(): the ancestors of node n, nearest first
RECURSIVE Ancestors(_, _)
Ancestors(d, n) ==
    IF d[n].parent = 0 THEN <<>> ELSE << d[n].parent >> \o Ancestors(d, d[n].parent)

SeqRange(q) == { q[i] : i \in 1..Len(q) }

\* find('*'): the descendants of node n
Descendants(d, n) == { m \in 1..Len(d) : n \in SeqRange(Ancestors(d, m)) }

RECURSIVE SumText(_, _)
SumText(d, nodes) ==
    IF nodes = {} THEN 0
    ELSE LET m == CHOOSE x \in nodes : TRUE IN d[m].text + SumText(d, nodes \ {m})

\* text().length of node n in the document with the nodes in gone removed:
\* the text nodes of the element and of everything under it, script and
\* style content included
TextLen(d, n, gone) == SumText(d, (({n} \cup Descendants(d, n)) \ gone))

\* closest(selector): node n or its nearest ancestor with one of the tags, 0 when none
Closest(d, n, tags) ==
    LET chain == << n >> \o Ancestors(d, n)
        hit == { i \in 1..Len(chain) : d[chain[i]].tag \in tags }
    IN  IF hit = {} THEN 0 ELSE chain[CHOOSE i \in hit : \A j \in hit : i <= j]

\* the first node of a set in document order
First(nodes) == CHOOSE n \in nodes : \A m \in nodes : n <= m

\* ---------------------------------------------------------------------
\* the whole-page heuristic route
\* ---------------------------------------------------------------------

MinHitScore == 12
LcaTextCeiling == 15000
OAuthTextCeiling == 5000

TopHitCount == 10
SvgInnerCeiling == 2000

OAUTH_PROVIDERS == << "google", "apple", "facebook", "microsoft", "github", "gitlab",
                      "okta", "auth0", "linkedin", "twitter", "bitbucket", "sso" >>
ACTION_KEYWORDS == << "sign", "log", "continue", "auth", "connect", "login", "account",
                      "identity" >>

\* String.prototype.includes
Includes(str, sub) ==
    \E i \in 1..(Len(str) - Len(sub) + 1) : SubSeq(str, i, i + Len(sub) - 1) = sub

IncludesSome(str, subs) == \E i \in 1..Len(subs) : Includes(str, subs[i])

\* $(el).text(): the text of the element and of everything under it
RECURSIVE TextFrom(_, _, _)
TextFrom(d, n, m) ==
    IF m > Len(d) THEN ""
    ELSE (IF m = n \/ n \in SeqRange(Ancestors(d, m)) THEN d[m].str ELSE "")
         \o TextFrom(d, n, m + 1)

\* Object.values(attribs).join(' ') + ' ' + text, lower-cased
Combined(d, n) ==
    toLowerCase(d[n].attrs.type \o " " \o d[n].attrs.role \o " " \o d[n].attrs.class
                \o " " \o d[n].attrs.src \o " " \o TextFrom(d, n, 1))

PasswordInput(up) == Element("input", up, [NoAttribs EXCEPT !.type = "password"], "")
GoogleLink(up) == Element("a", up, NoAttribs, "Sign in with Google")
GitHubButton(up) == Element("button", up, [NoAttribs EXCEPT !.class = "btn"], "Log in with GitHub")
ScriptNode(up) == DomNode("script", up, 200, "", "")

\* elements of every class the scorer tells apart
ElementZoo(up) ==
    { PasswordInput(up),
      Element("input", up, [NoAttribs EXCEPT !.type = "password", !.class = "google-pw"], ""),
      Element("input", up, [NoAttribs EXCEPT !.type = "Email"], ""),
      Element("input", up, [NoAttribs EXCEPT !.type = "text", !.class = "q"], ""),
      Element("input", up, [NoAttribs EXCEPT !.type = "submit", !.role = "button"], ""),
      GoogleLink(up),
      Element("a", up, [NoAttribs EXCEPT !.class = "auth0-link"], "Enterprise"),
      Element("a", up, NoAttribs, "Share on Twitter"),
      Element("a", up, NoAttribs, "About us"),
      Element("button", up, [NoAttribs EXCEPT !.class = "github-icon"], ""),
      Element("button", up, NoAttribs, "Log in"),
      Element("button", up, NoAttribs, "Continue reading the whole story"),
      Element("div", up, [NoAttribs EXCEPT !.role = "button"], "Sign up"),
      Element("div", up, [NoAttribs EXCEPT !.class = "social-row"], "") }

\* a password input, a Google link, a GitHub button and a script, each
\* absent, under the body or under the wrapper
MixedDocs ==
    { Skeleton(tg, own) \o pw \o g \o gh \o sc :
        tg \in {"main", "section", "div", "form"}, own \in {200, 4900, 15000},
        pw \in { <<>> } \cup { << PasswordInput(up) >> : up \in 2..3 },
        g \in { <<>> } \cup { << GoogleLink(up) >> : up \in 2..3 },
        gh \in { <<>> } \cup { << GitHubButton(up) >> : up \in 2..3 },
        sc \in { <<>> } \cup { << ScriptNode(up) >> : up \in 2..3 } }

\* the GitHub button inside the Google link
NestedDocs ==
    { Skeleton(tg, 200) \o pw \o << GoogleLink(up) >>
                        \o << GitHubButton(3 + Len(pw) + 1) >> :
        tg \in {"main", "section", "div", "form"},
        pw \in { <<>> } \cup { << PasswordInput(up2) >> : up2 \in 2..3 },
        up \in 2..3 }

\* one element of the zoo
ZooDocs ==
    { Skeleton(tg, 200) \o << e >> :
        tg \in {"section", "form"}, e \in ElementZoo(2) \cup ElementZoo(3) }

\* more hits than the route keeps: TopHitCount password inputs under the
\* wrapper and a Google link after them
CrowdedDocs ==
    { Skeleton(tg, 200) \o [i \in 1..TopHitCount |-> PasswordInput(3)]
                        \o << GoogleLink(up) >> :
        tg \in {"main", "section", "div", "form"}, up \in 2..3 }

CommentNode(up) == DomNode("#comment", up, 0, "", "")

\* an svg whose inner markup (path data, no element that the cleaner
\* touches) has the given length
SvgNode(up, len) == [DomNode("svg", up, 0, "", "") EXCEPT !.inner = len]

ImgNode(up, source) == Element("img", up, [NoAttribs EXCEPT !.src = source], "")

\* a login form (node 3) with a div (node 4) in it, and what the cleaner is
\* for, under the form itself or under the div: a comment, an svg at or
\* over the ceiling, an img with an embedded or a linked source; then the
\* password input under the form and a Google link under the div
ClutteredDocs ==
    { Skeleton("form", 200) \o << DomNode("div", 3, 0, "", "") >> \o cm \o svg \o img
          \o << PasswordInput(3), GoogleLink(4) >> :
        cm \in { <<>> } \cup { << CommentNode(up) >> : up \in 3..4 },
        svg \in { <<>> } \cup { << SvgNode(up, len) >> :
                                   up \in 3..4, len \in {SvgInnerCeiling, SvgInnerCeiling + 1} },
        img \in { <<>> } \cup { << ImgNode(up, source) >> :
                                   up \in 3..4, source \in {"data:image/png;base64,AAAA", "/logo.png"} } }

PageDocs == MixedDocs \cup NestedDocs \cup ZooDocs \cup CrowdedDocs \cup ClutteredDocs

\* a scorer that tries the input rules before the provider names
GetElementInfoInputFirst(d, n) ==
    LET combined == Combined(d, n)
        inputType == toLowerCase(d[n].attrs.type)
        named == { i \in 1..Len(OAUTH_PROVIDERS) : Includes(combined, OAUTH_PROVIDERS[i]) }
    IN  IF d[n].tag = "input" /\ (inputType = "password" \/ Includes(combined, "password"))
        THEN [score |-> 30, type |-> "TRADITIONAL", brand |-> ""]
        ELSE IF named # {}
        THEN [score |-> IF IncludesSome(combined, ACTION_KEYWORDS) THEN 25 ELSE 15,
              type |-> "OAUTH",
              brand |-> OAUTH_PROVIDERS[CHOOSE i \in named : \A j \in named : i <= j]]
        ELSE [score |-> 0, type |-> "UNKNOWN", brand |-> ""]

\* getElementInfo
GetElementInfo(d, n) ==
    LET text == toLowerCase(TextFrom(d, n, 1))
        combined == Combined(d, n)
        inputType == toLowerCase(d[n].attrs.type)
        named == { i \in 1..Len(OAUTH_PROVIDERS) : Includes(combined, OAUTH_PROVIDERS[i]) }
    IN  IF named # {}
        THEN [score |-> IF IncludesSome(combined, ACTION_KEYWORDS) THEN 25 ELSE 15,
              type |-> "OAUTH",
              brand |-> OAUTH_PROVIDERS[CHOOSE i \in named : \A j \in named : i <= j]]
        ELSE IF d[n].tag = "input" /\ (inputType = "password" \/ Includes(combined, "password"))
        THEN [score |-> 30, type |-> "TRADITIONAL", brand |-> ""]
        ELSE IF /\ d[n].tag = "input"
                /\ \/ Includes(combined, "email") \/ Includes(combined, "username")
                   \/ inputType = "email"
        THEN [score |-> 20, type |-> "TRADITIONAL", brand |-> ""]
        ELSE IF /\ d[n].tag \in {"button", "a"} \/ d[n].attrs.role = "button"
                /\ IncludesSome(text, ACTION_KEYWORDS)
                /\ Len(text) < 30
        THEN [score |-> 12, type |-> "ACTION", brand |-> ""]
        ELSE [score |-> 0, type |-> "UNKNOWN", brand |-> ""]

\* the elements the selector of the scan matches
Selected(d) ==
    { n \in 1..Len(d) :
        \/ d[n].tag \in {"input", "button", "a"}
        \/ d[n].attrs.role = "button"
        \/ IncludesSome(d[n].attrs.class, << "auth", "login", "oauth", "social" >>) }

\* getElementInfo of each element the selector matches
Scored(d) == [n \in Selected(d) |-> GetElementInfo(d, n)]

\* the elements the selector matches that score at least 12
Hits(d) ==
    LET info == Scored(d)
    IN  { n \in DOMAIN info : info[n].score >= MinHitScore }

HitsOfType(d, type) ==
    LET info == Scored(d)
    IN  { n \in DOMAIN info : info[n].score >= MinHitScore /\ info[n].type = type }

\* hits.sort((a, b) => b.score - a.score): the sort is stable
RanksBefore(info, m, n) ==
    \/ info[m].score > info[n].score
    \/ info[m].score = info[n].score /\ m < n

\* hits.sort(...).slice(0, 10)
TopHits(d) ==
    LET info == Scored(d)
        hits == { n \in DOMAIN info : info[n].score >= MinHitScore }
    IN  { n \in hits : Cardinality({ m \in hits : RanksBefore(info, m, n) }) < TopHitCount }

\* what sanitizeHtml removes from the tree it is given: the script, style,
\* noscript, iframe, link, meta, template and head elements under node n
SanitizeRemoves(d, n, gone) ==
    { m \in Descendants(d, n) \ gone :
        d[m].tag \in {"script", "style", "noscript", "iframe", "link", "meta", "template", "head"} }

\* the nodes under node n that are still in the tree
Attached(d, n, gone) ==
    { m \in Descendants(d, n) \ gone : SeqRange(Ancestors(d, m)) \cap gone = {} }

StartsWith(str, prefix) ==
    Len(str) >= Len(prefix) /\ SubSeq(str, 1, Len(prefix)) = prefix

\* sanitizeHtml on node n, in the order of its four statements: the blocked
\* elements under n go; then the svg elements under n whose inner markup is
\* longer than the ceiling; then the comment nodes among the children of
\* the elements under n (find('*') does not hold n itself, so the comments
\* that are children of n stay); then the img elements under n with a
\* data: source get the placeholder source
SanitizeHtml(d, n, gone) ==
    LET blocked == gone \cup SanitizeRemoves(d, n, gone)
        svgs == blocked \cup { m \in Attached(d, n, blocked) :
                                 d[m].tag = "svg" /\ d[m].inner > SvgInnerCeiling }
        comments == svgs \cup { m \in Attached(d, n, svgs) :
                                  d[m].tag = "#comment" /\ d[m].parent # n }
    IN  [gone |-> comments,
         doc |-> [m \in 1..Len(d) |->
                    IF /\ m \in Attached(d, n, comments)
                       /\ d[m].tag = "img"
                       /\ StartsWith(d[m].attrs.src, "data:")
                    THEN [d[m] EXCEPT !.attrs.src = "#asset-data"]
                    ELSE d[m]]]

\* an LCA that takes the farthest common ancestor
FindLCAFarthest(d, nodes) ==
    IF nodes = {} THEN 0
    ELSE IF Cardinality(nodes) = 1 THEN d[First(nodes)].parent
    ELSE LET chain == Ancestors(d, First(nodes))
             common == { i \in 1..Len(chain) :
                            \A m \in nodes : chain[i] \in SeqRange(Ancestors(d, m)) }
         IN  IF common = {} THEN 0 ELSE chain[CHOOSE i \in common : \A j \in common : j <= i]

\* findLCA: nothing for no element, the parent for one, else the nearest
\* element that is an ancestor of all
FindLCA(d, nodes) ==
    IF nodes = {} THEN 0
    ELSE IF Cardinality(nodes) = 1 THEN d[First(nodes)].parent
    ELSE LET chain == Ancestors(d, First(nodes))
             common == { i \in 1..Len(chain) :
                            \A m \in nodes : chain[i] \in SeqRange(Ancestors(d, m)) }
         IN  IF common = {} THEN 0 ELSE chain[CHOOSE i \in common : \A j \in common : i <= j]

\* the test of the LCA of the top hits
GoodContainer(d, n, gone) ==
    /\ n # 0
    /\ d[n].tag \notin {"body", "html", "main"}
    /\ TextLen(d, n, gone) < LcaTextCeiling

Fragment(lbl, n) == [label |-> lbl, node |-> n]

\* the selector runs over the parsed document and the hits are scored
PageScan ==
    /\ wp_pc = "scan"
    /\ wp_pc' = IF Hits(dom) = {} THEN "notfound" ELSE "buttons"
    /\ UNCHANGED <<dom, wp_gone, wp_html, wp_buttons, sb_pc, sb_container, sb_rejected,
                   sb_html, detectVars, ddVars, patVars, poolVars, scrapeVars>>

\* oauthButtons: extractSnippet clones the button or link of each provider
\* hit (node 0: nothing, when there is none around it) and sanitizes the
\* clone; the reduce keeps the first button of each brand among equal scores
PageButtons ==
    /\ wp_pc = "buttons"
    /\ wp_buttons' =
          LET info == Scored(dom)
              oauthHits == { n \in DOMAIN info :
                               info[n].score >= MinHitScore /\ info[n].type = "OAUTH" }
              kept == { n \in oauthHits :
                          \A m \in oauthHits :
                              info[m].brand = info[n].brand => ~RanksBefore(info, m, n) }
          IN  { [brand |-> info[n].brand,
                 node |-> Closest(dom, n, {"button", "a"})] : n \in kept }
    /\ wp_pc' = "lca"
    /\ UNCHANGED <<dom, wp_gone, wp_html, sb_pc, sb_container, sb_rejected,
                   sb_html, detectVars, ddVars, patVars, poolVars, scrapeVars>>

\* the LCA of the top hits is sanitized and serialized when it is good
PageContainer ==
    /\ wp_pc = "lca"
    /\ LET container == FindLCA(dom, TopHits(dom))
       IN  IF GoodContainer(dom, container, wp_gone)
           THEN /\ wp_gone' = SanitizeHtml(dom, container, wp_gone).gone
                /\ dom' = SanitizeHtml(dom, container, wp_gone).doc
                /\ wp_html' = << Fragment("", container) >>
                /\ wp_pc' = "returned"
           ELSE /\ wp_pc' = "trad"
                /\ UNCHANGED <<dom, wp_gone, wp_html>>
    /\ UNCHANGED <<wp_buttons, sb_pc, sb_container, sb_rejected,
                   sb_html, detectVars, ddVars, patVars, poolVars, scrapeVars>>

\* otherwise the block of the best traditional hit is sanitized and
\* serialized under its label
PageTraditional ==
    /\ wp_pc = "trad"
    /\ LET trad == HitsOfType(dom, "TRADITIONAL")
           tradBlock == IF trad = {} THEN 0 ELSE Closest(dom, First(trad), {"form", "section"})
       IN  IF tradBlock # 0
           THEN /\ wp_gone' = SanitizeHtml(dom, tradBlock, wp_gone).gone
                /\ dom' = SanitizeHtml(dom, tradBlock, wp_gone).doc
                /\ wp_html' = Append(wp_html, Fragment("Traditional Auth", tradBlock))
           ELSE UNCHANGED <<dom, wp_gone, wp_html>>
    /\ wp_pc' = "oauth"
    /\ UNCHANGED <<wp_buttons, sb_pc, sb_container, sb_rejected,
                   sb_html, detectVars, ddVars, patVars, poolVars, scrapeVars>>

\* then the LCA of the provider hits, or the parent of the first one when
\* that LCA has 5000 characters of text or more
PageOAuth ==
    /\ wp_pc = "oauth"
    /\ LET oauthHits == HitsOfType(dom, "OAUTH")
           oauthLCA == FindLCA(dom, oauthHits)
           oauthBlock == IF oauthHits = {} THEN 0
                         ELSE IF oauthLCA # 0 /\ TextLen(dom, oauthLCA, wp_gone) < OAuthTextCeiling
                              THEN oauthLCA
                              ELSE dom[First(oauthHits)].parent
       IN  IF oauthBlock # 0
           THEN /\ wp_gone' = SanitizeHtml(dom, oauthBlock, wp_gone).gone
                /\ dom' = SanitizeHtml(dom, oauthBlock, wp_gone).doc
                /\ wp_html' = Append(wp_html, Fragment("OAuth / SSO Components", oauthBlock))
           ELSE UNCHANGED <<dom, wp_gone, wp_html>>
    /\ wp_pc' = "returned"
    /\ UNCHANGED <<wp_buttons, sb_pc, sb_container, sb_rejected,
                   sb_html, detectVars, ddVars, patVars, poolVars, scrapeVars>>

InitPage ==
    /\ DetectIdle /\ DedupIdle /\ PatternIdle /\ PoolIdle /\ ScrapeIdle
    /\ dom \in PageDocs
    /\ wp_pc = "scan" /\ wp_gone = {} /\ wp_html = <<>> /\ wp_buttons = {}
    /\ sb_pc = "off" /\ sb_container = 0 /\ sb_rejected = FALSE /\ sb_html = 0

NextPage ==
    \/ PageScan
    \/ PageButtons
    \/ PageContainer
    \/ PageTraditional
    \/ PageOAuth

SpecPage == InitPage /\ [][NextPage]_vars

\* C25: sanitizing never changes the parsed document: whatever the route
\* has serialized, no node has been removed from the document tree and the
\* text length of every element in it is what it was when the document
\* was loaded
C25_DocumentNeverMutated ==
    /\ wp_gone = {}
    /\ \A n \in 1..Len(dom) : TextLen(dom, n, wp_gone) = TextLen(dom, n, {})

\* a body, html or main element, or an element whose text is longer than
\* the size ceiling
C26_Gross(n) ==
    \/ dom[n].tag \in {"body", "html", "main"}
    \/ TextLen(dom, n, {}) > LcaTextCeiling

\* C26: the whole-page route never serializes a body, html or main element
\* or an element over the size ceiling: when the LCA of the hits is one (or
\* there is none), what it returns is made of the labelled traditional and
\* OAuth fragments only, and no fragment is such an element either
C26_NeverGrossContainer ==
    wp_pc = "returned" =>
        /\ \A i \in 1..Len(wp_html) : ~C26_Gross(wp_html[i].node)
        /\ LET lca == FindLCA(dom, TopHits(dom))
           IN  (lca = 0 \/ C26_Gross(lca)) =>
                   \A i \in 1..Len(wp_html) :
                       wp_html[i].label \in {"Traditional Auth", "OAuth / SSO Components"}

\* C33: after sanitizeHtml has run on a subtree, the subtree holds no
\* script, style, noscript, iframe, link, meta, template or head element,
\* no comment node at any depth (the children of the subtree root
\* included), no svg with more than 2,000 characters of inner markup and no
\* img with a data: source, and running it once more changes nothing
C33_SanitizedSubtreeClean ==
    wp_pc = "returned" =>
        \A i \in 1..Len(wp_html) :
            LET root == wp_html[i].node
            IN  /\ \A m \in Attached(dom, root, wp_gone) :
                      /\ dom[m].tag \notin {"script", "style", "noscript", "iframe", "link",
                                             "meta", "template", "head", "#comment"}
                      /\ dom[m].tag = "svg" => dom[m].inner <= SvgInnerCeiling
                      /\ dom[m].tag = "img" => ~StartsWith(dom[m].attrs.src, "data:")
                /\ SanitizeHtml(dom, root, wp_gone) = [gone |-> wp_gone, doc |-> dom]

\* the same without the comments that are children of the subtree root
C33_CleanBelowRootChildren ==
    wp_pc = "returned" =>
        \A i \in 1..Len(wp_html) :
            LET root == wp_html[i].node
            IN  /\ \A m \in Attached(dom, root, wp_gone) :
                      /\ dom[m].tag \notin {"script", "style", "noscript", "iframe", "link",
                                             "meta", "template", "head"}
                      /\ dom[m].tag = "#comment" => dom[m].parent = root
                      /\ dom[m].tag = "svg" => dom[m].inner <= SvgInnerCeiling
                      /\ dom[m].tag = "img" => ~StartsWith(dom[m].attrs.src, "data:")
                /\ SanitizeHtml(dom, root, wp_gone) = [gone |-> wp_gone, doc |-> dom]

\* the nodes that are an ancestor of every node of the set
C31_CommonAncestors(nodes) ==
    { a \in 1..Len(dom) : \A h \in nodes : a \in SeqRange(Ancestors(dom, h)) }

\* node l is the deepest common ancestor of the set
C31_IsLCA(l, nodes) ==
    /\ l \in C31_CommonAncestors(nodes)
    /\ Descendants(dom, l) \cap C31_CommonAncestors(nodes) = {}

\* C31: for two or more hit elements findLCA returns the deepest node that
\* is an ancestor of every hit, an element not counting as its own
\* ancestor: it is an ancestor of each hit and no descendant of it is an
\* ancestor of all of them. Checked for the top hits and for the provider
\* hits, the two sets the route gives to findLCA.
C31_FindLCAIsDeepestCommonAncestor ==
    wp_pc \notin {"off", "scan"} =>
        \A nodes \in {TopHits(dom), HitsOfType(dom, "OAUTH")} :
            Cardinality(nodes) >= 2 => C31_IsLCA(FindLCA(dom, nodes), nodes)

\* the route took the LCA of a link and of the button inside it: their
\* common parent, the wrapper element
C31_Witness ==
    /\ wp_pc = "returned"
    /\ \E n, m \in HitsOfType(dom, "OAUTH") : n \in SeqRange(Ancestors(dom, m))
    /\ Len(wp_html) = 1 /\ wp_html[1].label = "" /\ wp_html[1].node = 3

\* C32: a container the whole-page route accepts as the LCA encloses every
\* hit element (score >= 12), whatever the number of hits
C32_AcceptedContainerEnclosesAllHits ==
    (wp_pc = "returned" /\ Len(wp_html) = 1 /\ wp_html[1].label = "") =>
        \A h \in Hits(dom) : wp_html[1].node \in SeqRange(Ancestors(dom, h))

C36_Named(n) == IncludesSome(Combined(dom, n), OAUTH_PROVIDERS)

\* each element with what getElementInfo reads of it and what it returns
C36_Scored ==
    { [tag |-> dom[n].tag, attrs |-> dom[n].attrs, text |-> TextFrom(dom, n, 1),
       named |-> C36_Named(n),
       action |-> IncludesSome(Combined(dom, n), ACTION_KEYWORDS),
       info |-> GetElementInfo(dom, n)] : n \in 1..Len(dom) }

\* C36: getElementInfo checks the provider names first: an element whose
\* combined attribute-and-text string holds a provider name is OAUTH
\* whatever its tag, with score 25 when an action keyword is in the same
\* string and 15 otherwise; the score is 0 exactly when the type is UNKNOWN;
\* and elements equal in tag, attributes and text get the same result
C36_ProvidersFirst ==
    wp_pc \in {"buttons", "notfound"} =>
        LET scored == C36_Scored
        IN  \A x \in scored :
                /\ x.named =>
                      /\ x.info.type = "OAUTH"
                      /\ x.info.score = IF x.action THEN 25 ELSE 15
                /\ x.info.score = 0 <=> x.info.type = "UNKNOWN"
                /\ \A y \in scored :
                      (y.tag = x.tag /\ y.attrs = x.attrs /\ y.text = x.text)
                          => y.info = x.info

\* the scan has scored a password input whose class names a provider:
\* OAUTH with score 15
C36_Witness ==
    /\ wp_pc = "buttons"
    /\ \E n \in Hits(dom) :
          /\ dom[n].tag = "input" /\ dom[n].attrs.type = "password"
          /\ C36_Named(n)
          /\ GetElementInfo(dom, n).score = 15

\* C37: whenever the whole-page route answers found = true, the html it
\* returns is not empty: a container or a labelled fragment was serialized
C37_FoundHasMarkup ==
    wp_pc = "returned" => /\ Len(wp_html) > 0
                          /\ \A i \in 1..Len(wp_html) : wp_html[i].node # 0

\* ---------------------------------------------------------------------
\* the single-best-element route
\* ---------------------------------------------------------------------

ContainerTextCeiling == 10000

BestDocs ==
    { Skeleton(tg, own) \o pw \o lg \o p1 \o p2 :
        tg \in {"form", "section", "main", "div"}, own \in {500, 9999, 10000, 10001},
        pw \in Placed("input", 0, "password", ""),
        lg \in Placed("input", 0, "login", ""),
        p1 \in Placed("input", 0, "plain", ""),
        p2 \in Placed("input", 0, "plain", "") }

\* scoreElement over the attributes of an input
ScoreElement(nd) ==
    IF nd.kind = "password" THEN 10 ELSE IF nd.kind = "login" THEN 3 ELSE 0

HasAuthKeyword(nd) == nd.kind \in {"password", "login"}

Inputs(d) == { n \in 1..Len(d) : d[n].tag = "input" }

\* step 1: the first input with the highest score above 0, 0 when none
BestInput(d) ==
    LET scoring == { n \in Inputs(d) : ScoreElement(d[n]) > 0 }
    IN  IF scoring = {} THEN 0
        ELSE First({ n \in scoring : \A m \in scoring : ScoreElement(d[m]) <= ScoreElement(d[n]) })

\* step 2: the enclosing form, else the nearest semantic container, else
\* the third ancestor
ResolveContainer(d, n) ==
    IF Closest(d, n, {"form"}) # 0 THEN Closest(d, n, {"form"})
    ELSE IF Closest(d, n, {"section", "main"}) # 0 THEN Closest(d, n, {"section", "main"})
    ELSE IF Len(Ancestors(d, n)) >= 3 THEN Ancestors(d, n)[3] ELSE 0

\* step 3: what the markup of a form adds to its score
FormScore(d, f) ==
    (IF \E n \in Descendants(d, f) : d[n].kind = "password" THEN 10 ELSE 0)
    + (IF \E n \in Descendants(d, f) : d[n].kind = "login" THEN 3 ELSE 0)

Forms(d) == { n \in 1..Len(d) : d[n].tag = "form" }

\* the first node of a set in document order, 0 for the empty set
FirstOrNone(nodes) == IF nodes = {} THEN 0 ELSE First(nodes)

\* steps 1 and 2: the container of the best input is serialized when its
\* text is shorter than the ceiling
BestContainer ==
    /\ sb_pc = "step2"
    /\ LET best == BestInput(dom)
           container == IF best # 0 /\ ScoreElement(dom[best]) >= 5
                        THEN ResolveContainer(dom, best) ELSE 0
           taken == container # 0 /\ TextLen(dom, container, {}) < ContainerTextCeiling
       IN  /\ sb_container' = container
           /\ sb_rejected' = (container # 0 /\ ~taken)
           /\ sb_html' = IF taken THEN container ELSE 0
    /\ sb_pc' = "step3"
    /\ UNCHANGED <<dom, wp_pc, wp_gone, wp_html, wp_buttons,
                   detectVars, ddVars, patVars, poolVars, scrapeVars>>

\* step 3: the first form that has an input and scores 5 or more
BestForms ==
    /\ sb_pc = "step3"
    /\ sb_html' = IF sb_html # 0 THEN sb_html
                  ELSE FirstOrNone({ f \in Forms(dom) :
                          /\ Descendants(dom, f) \cap Inputs(dom) # {}
                          /\ FormScore(dom, f) >= 5 })
    /\ sb_pc' = "step4"
    /\ UNCHANGED <<dom, sb_container, sb_rejected, wp_pc, wp_gone, wp_html, wp_buttons,
                   detectVars, ddVars, patVars, poolVars, scrapeVars>>

\* step 4: the form around the first input with an auth keyword that has one
BestKeyword ==
    /\ sb_pc = "step4"
    /\ sb_html' = IF sb_html # 0 THEN sb_html
                  ELSE LET inForm == { n \in Inputs(dom) :
                                         HasAuthKeyword(dom[n]) /\ Closest(dom, n, {"form"}) # 0 }
                       IN  IF inForm = {} THEN 0 ELSE Closest(dom, First(inForm), {"form"})
    /\ sb_pc' = "step5"
    /\ UNCHANGED <<dom, sb_container, sb_rejected, wp_pc, wp_gone, wp_html, wp_buttons,
                   detectVars, ddVars, patVars, poolVars, scrapeVars>>

\* step 5: the first form with two inputs or more; then the response
BestAnyForm ==
    /\ sb_pc = "step5"
    /\ sb_html' = IF sb_html # 0 THEN sb_html
                  ELSE FirstOrNone({ f \in Forms(dom) :
                          Cardinality(Descendants(dom, f) \cap Inputs(dom)) >= 2 })
    /\ sb_pc' = IF sb_html' # 0 THEN "returned" ELSE "notfound"
    /\ UNCHANGED <<dom, sb_container, sb_rejected, wp_pc, wp_gone, wp_html, wp_buttons,
                   detectVars, ddVars, patVars, poolVars, scrapeVars>>

InitBest ==
    /\ DetectIdle /\ DedupIdle /\ PatternIdle /\ PoolIdle /\ ScrapeIdle
    /\ dom \in BestDocs
    /\ sb_pc = "step2" /\ sb_container = 0 /\ sb_rejected = FALSE /\ sb_html = 0
    /\ wp_pc = "off" /\ wp_gone = {} /\ wp_html = <<>> /\ wp_buttons = {}

NextBest ==
    \/ BestContainer
    \/ BestForms
    \/ BestKeyword
    \/ BestAnyForm

SpecBest == InitBest /\ [][NextBest]_vars

\* C27: in the single-best-element route the container resolved for the
\* best input is turned down exactly when its text is longer than 10,000
\* characters, and the markup the route returns is never that of a
\* container it turned down
C27_OversizedContainerNeverReturned ==
    /\ (sb_pc # "step2" /\ sb_container # 0) =>
          (sb_rejected <=> TextLen(dom, sb_container, {}) > ContainerTextCeiling)
    /\ (sb_pc = "returned" /\ sb_rejected) => sb_html # sb_container

====
